---- MODULE Spec2Model ----
(***************************************************************************)
(* The in-process dispatch core of tgbot: the per-user message queue       *)
(* (src/queue.c), its condition-variable protocol, and the worker pool     *)
(* that drains it (worker_main / main).                                    *)
(*                                                                         *)
(* Every critical section of queue.c runs under g_queue.mtx, so each       *)
(* critical section is one atomic action; pthread_cond_wait splits         *)
(* queue_pop into the part before the wait and the part after the wakeup.  *)
(* calloc is taken to succeed (AllocOutcomes).                             *)
(***************************************************************************)
EXTENDS Integers, Sequences, FiniteSets, TLC

(* ---------------------------------------------------------------------- *)
(* Program constants                                                       *)
(* ---------------------------------------------------------------------- *)
QUEUE_BUCKETS == 64
QUEUE_BUCKET_MASK == QUEUE_BUCKETS - 1
TEXT_SIZE == 1024
DEFAULT_RING_SIZE == 30

(* ---------------------------------------------------------------------- *)
(* Bounds of the model                                                     *)
(* ---------------------------------------------------------------------- *)
MaxPush == 5
MaxUpdates == 3
MaxTime == 1

(* sender ids: 4 and 5 hash to the same bucket (53), 3 to bucket 14 *)
Senders == {3, 4, 5}
Threads == {"t1", "t2"}
(* the sender that pushes without end in the unbounded-load specification *)
Spammers == {5}
RingSizeArgs == {3}
TextLens == {6}
AllocOutcomes == {TRUE}

(* ---------------------------------------------------------------------- *)
(* Bitwise operations on naturals                                          *)
(* ---------------------------------------------------------------------- *)
RECURSIVE BitXor(_, _)
BitXor(a, b) == IF a = 0 THEN b
                ELSE IF b = 0 THEN a
                ELSE ((a + b) % 2) + 2 * BitXor(a \div 2, b \div 2)

RECURSIVE BitAnd(_, _)
BitAnd(a, b) == IF a = 0 \/ b = 0 THEN 0
                ELSE ((a % 2) * (b % 2)) + 2 * BitAnd(a \div 2, b \div 2)

RECURSIVE BitOr(_, _)
BitOr(a, b) == IF a = 0 THEN b
               ELSE IF b = 0 THEN a
               ELSE (IF a % 2 = 1 \/ b % 2 = 1 THEN 1 ELSE 0) + 2 * BitOr(a \div 2, b \div 2)

(* x & m for a mask m = 2^k - 1 and x >= 0 (the code's "bitmask modulo") *)
Mask(x, m) == x % (m + 1)

(* ---------------------------------------------------------------------- *)
(* uint64_t as eight 8-bit limbs, limb 1 least significant                 *)
(* ---------------------------------------------------------------------- *)
Limb(v, k) == IF k = 1 THEN v % 256
              ELSE IF k = 2 THEN (v \div 256) % 256
              ELSE IF k = 3 THEN (v \div 65536) % 256
              ELSE IF k = 4 THEN (v \div 16777216) % 256
              ELSE 0

(* (uint64_t)user_id for an int64_t that fits 32 bits; negatives are two's complement *)
ToU64(v) == IF v >= 0 THEN <<Limb(v, 1), Limb(v, 2), Limb(v, 3), Limb(v, 4), 0, 0, 0, 0>>
            ELSE LET w == (0 - v) - 1
                 IN  <<255 - Limb(w, 1), 255 - Limb(w, 2), 255 - Limb(w, 3), 255 - Limb(w, 4),
                       255, 255, 255, 255>>

LimbAt(h, k) == IF k <= 8 THEN h[k] ELSE 0

(* h >> 33: four whole limbs and one bit *)
Shr33(h) == <<(LimbAt(h, 5) \div 2) + ((LimbAt(h, 6) % 2) * 128),
              (LimbAt(h, 6) \div 2) + ((LimbAt(h, 7) % 2) * 128),
              (LimbAt(h, 7) \div 2) + ((LimbAt(h, 8) % 2) * 128),
              LimbAt(h, 8) \div 2,
              0, 0, 0, 0>>

Xor64(a, b) == <<BitXor(a[1], b[1]), BitXor(a[2], b[2]), BitXor(a[3], b[3]), BitXor(a[4], b[4]),
                 BitXor(a[5], b[5]), BitXor(a[6], b[6]), BitXor(a[7], b[7]), BitXor(a[8], b[8])>>

(* column k of the schoolbook product: sum of a[i] * c[k + 1 - i], i = 1..k *)
RECURSIVE MulColumn(_, _, _, _)
MulColumn(a, c, k, i) == IF i > k THEN 0
                         ELSE (a[i] * c[k + 1 - i]) + MulColumn(a, c, k, i + 1)

(* the carry into limb k *)
RECURSIVE MulCarry(_, _, _)
MulCarry(a, c, k) == IF k = 1 THEN 0
                     ELSE (MulColumn(a, c, k - 1, 1) + MulCarry(a, c, k - 1)) \div 256

MulLimb(a, c, k) == (MulColumn(a, c, k, 1) + MulCarry(a, c, k)) % 256

(* a * c mod 2^64 *)
Mul64(a, c) == <<MulLimb(a, c, 1), MulLimb(a, c, 2), MulLimb(a, c, 3), MulLimb(a, c, 4),
                 MulLimb(a, c, 5), MulLimb(a, c, 6), MulLimb(a, c, 7), MulLimb(a, c, 8)>>

(* 0xff51afd7ed558ccd and 0xc4ceb9fe1a85ec53, least significant byte first *)
FMIX_C1 == <<205, 140, 85, 237, 215, 175, 81, 255>>
FMIX_C2 == <<83, 236, 133, 26, 254, 185, 206, 196>>

(* ---------------------------------------------------------------------- *)
(* queue.c: pure helpers                                                   *)
(* ---------------------------------------------------------------------- *)
(* round_up_pow2 without the decrement of line 36 *)
round_up_pow2_no_decrement(v0) ==
    LET v1 == IF v0 < 4 THEN 4 ELSE v0
        v2 == BitOr(v1, v1 \div 2)
        v3 == BitOr(v2, v2 \div 4)
        v4 == BitOr(v3, v3 \div 16)
        v5 == BitOr(v4, v4 \div 256)
        v6 == BitOr(v5, v5 \div 65536)
    IN  v6 + 1

round_up_pow2(v0) ==
    LET v1 == (IF v0 < 4 THEN 4 ELSE v0) - 1
        v2 == BitOr(v1, v1 \div 2)
        v3 == BitOr(v2, v2 \div 4)
        v4 == BitOr(v3, v3 \div 16)
        v5 == BitOr(v4, v4 \div 256)
        v6 == BitOr(v5, v5 \div 65536)
    IN  v6 + 1

U64 == [1..8 -> 0..255]

(* h ^= h >> 33 *)
XorShift33 == [h \in U64 |-> Xor64(h, Shr33(h))]

(* h *= c *)
MulBy(c) == [h \in U64 |-> Mul64(h, c)]

hash_user(user_id) ==
    LET h1 == XorShift33[ToU64(user_id)]
        h2 == MulBy(FMIX_C1)[h1]
        h3 == XorShift33[h2]
        h4 == MulBy(FMIX_C2)[h3]
        h5 == XorShift33[h4]
    IN  BitAnd(h5[1], QUEUE_BUCKET_MASK)

(* hash_user of every modelled sender id, computed once *)
BucketOf == [u \in Senders |-> hash_user(u)]

(* ---------------------------------------------------------------------- *)
(* queue.c: data                                                           *)
(* ---------------------------------------------------------------------- *)
(* a message text is its content (id) and its strlen (len) *)
NoText == [id |-> 0, len |-> 0]

(* memcpy of at most sizeof(text) - 1 bytes, then the terminator *)
TruncText(text) == [text EXCEPT !.len = IF text.len >= TEXT_SIZE THEN TEXT_SIZE - 1 ELSE text.len]

(* a calloc'ed Slot *)
ZeroSlot == [chat_id |-> 0, text |-> NoText, ingress_sec |-> 0]

(* a QueueMsg that has not been filled *)
NoMsg == [user_id |-> 0, chat_id |-> 0, text |-> NoText, ingress_sec |-> 0]

(* a calloc'ed UserRing after lines 92-95 *)
NewRing(user_id, ring_size) ==
    LET cap == round_up_pow2(ring_size)
    IN  [user_id |-> user_id,
         slots |-> [i \in 0..(cap - 1) |-> ZeroSlot],
         head |-> 0, tail |-> 0, count |-> 0,
         cap |-> cap, cap_mask |-> cap - 1]

(* position of user_id's ring in a hash chain (1 = head of chain), 0 if none *)
ChainFind(chain, user_id) ==
    LET hits == {p \in 1..Len(chain) : chain[p].user_id = user_id}
    IN  IF hits = {} THEN 0 ELSE CHOOSE p \in hits : \A o \in hits : p <= o

(* position of the first ring with count > 0 in a hash chain, 0 if none *)
ChainFirstNonEmpty(chain) ==
    LET hits == {p \in 1..Len(chain) : chain[p].count > 0}
    IN  IF hits = {} THEN 0 ELSE CHOOSE p \in hits : \A o \in hits : p <= o

(* prev->next = r->next, or buckets[idx] = r->next *)
ChainUnlink(chain, p) == [i \in 1..(Len(chain) - 1) |-> IF i < p THEN chain[i] ELSE chain[i + 1]]

(* memset(&g_queue, 0, ...) and the ring_size default *)
queue_init(ring_size) ==
    [buckets |-> [b \in 0..(QUEUE_BUCKETS - 1) |-> <<>>],
     total_pending |-> 0,
     ring_size |-> IF ring_size > 0 THEN ring_size ELSE DEFAULT_RING_SIZE,
     shutdown |-> 0,
     rr_bucket |-> 0]

(* ---------------------------------------------------------------------- *)
(* queue.c: operations under the mutex                                     *)
(* ---------------------------------------------------------------------- *)
(* lines 80-103 of ring_get_or_create, for bucket idx; pos = 0 stands for NULL *)
ring_in_bucket(q, user_id, idx, alloc_ok) ==
    LET pos == ChainFind(q.buckets[idx], user_id)
    IN  IF pos > 0 THEN [q |-> q, idx |-> idx, pos |-> pos]
        ELSE IF ~alloc_ok THEN [q |-> q, idx |-> idx, pos |-> 0]
        ELSE [q |-> [q EXCEPT !.buckets[idx] = <<NewRing(user_id, q.ring_size)>> \o @],
              idx |-> idx, pos |-> 1]

(* find or create the ring of user_id (idx is evaluated once) *)
ring_get_or_create(q, user_id, alloc_ok) ==
    CHOOSE g \in {ring_in_bucket(q, user_id, idx, alloc_ok) :
                    idx \in {IF user_id \in DOMAIN BucketOf THEN BucketOf[user_id]
                             ELSE hash_user(user_id)}} : TRUE

(* line 121: the slot a pop reads *)
pop_slot_lifo(r) == r.slots[Mask(r.tail + r.cap - 1, r.cap_mask)]

pop_slot(r) == r.slots[r.head]

(* lines 123-124: the ring after its head has been taken *)
ring_after_pop_stuck(r) == [r EXCEPT !.count = r.count - 1]

ring_after_pop(r) == [r EXCEPT !.head = Mask(r.head + 1, r.cap_mask),
                               !.count = r.count - 1]

(* line 125: total_pending after a pop *)
pending_after_pop_kept(q) == q.total_pending

pending_after_pop(q) == q.total_pending - 1

(* line 126: the round-robin cursor after bucket idx has been served *)
rr_after_pop_same(idx) == idx

rr_after_pop(idx) == Mask(idx + 1, QUEUE_BUCKET_MASK)

(* lines 129-137: a ring that drained to zero is unlinked and freed *)
chain_after_pop_keep(chain, p, r1) == [chain EXCEPT ![p] = r1]

chain_after_pop(chain, p, r1) == IF r1.count = 0 THEN ChainUnlink(chain, p)
                                 ELSE [chain EXCEPT ![p] = r1]

(* the least element of a non-empty set of integers (S is evaluated once) *)
MinOf(S) == CHOOSE m \in {(CHOOSE h \in T : \A o \in T : h <= o) : T \in {S}} : TRUE

(* the for loop of ring_pop_any: the first step i, counted from rr_bucket, whose
   bucket holds a ring with count > 0; QUEUE_BUCKETS if the loop runs out *)
scan_buckets(q) ==
    MinOf({i \in 0..(QUEUE_BUCKETS - 1) :
             ChainFirstNonEmpty(q.buckets[Mask(q.rr_bucket + i, QUEUE_BUCKET_MASK)]) > 0}
          \cup {QUEUE_BUCKETS})

(* lines 121-138: pop the head of the ring at position p of bucket idx *)
pop_ring(q, idx, p) ==
    LET chain == q.buckets[idx]
        r == chain[p]
    IN  [found |-> 1,
         q |-> [q EXCEPT !.buckets[idx] = chain_after_pop(chain, p, ring_after_pop(r)),
                         !.total_pending = pending_after_pop(q),
                         !.rr_bucket = rr_after_pop(idx)],
         slot |-> pop_slot(r),
         user_id |-> r.user_id]

(* lines 117-142: serve the first ring with count > 0 of bucket idx *)
pop_bucket(q, idx) ==
    CHOOSE res \in {pop_ring(q, idx, p) : p \in {ChainFirstNonEmpty(q.buckets[idx])}} : TRUE

(* step i of the for loop is the one that returns *)
pop_step(q, i) ==
    IF i >= QUEUE_BUCKETS THEN [found |-> 0, q |-> q, slot |-> ZeroSlot, user_id |-> 0]
    ELSE pop_bucket(q, Mask(q.rr_bucket + i, QUEUE_BUCKET_MASK))

(* pop the head of the first non-empty ring in round-robin bucket order *)
ring_pop_any(q) ==
    CHOOSE res \in {pop_step(q, i) : i \in {scan_buckets(q)}} : TRUE

(* line 193: the drop-newest test *)
ring_full_off_by_one(r) == r.count > r.cap

ring_full(r) == r.count >= r.cap

(* lines 192-210 of queue_push, on the ring g that ring_get_or_create returned *)
push_ring(g, chat_id, text, clock) ==
    IF g.pos = 0 THEN [rc |-> 0 - 1, q |-> g.q]
    ELSE LET r == g.q.buckets[g.idx][g.pos]
         IN  IF ring_full(r) THEN [rc |-> 0 - 1, q |-> g.q]
             ELSE LET s == [chat_id |-> chat_id, text |-> TruncText(text),
                            ingress_sec |-> clock]
                      r1 == [r EXCEPT !.slots[r.tail] = s,
                                      !.tail = Mask(r.tail + 1, r.cap_mask),
                                      !.count = r.count + 1]
                  IN  [rc |-> 0,
                       q |-> [g.q EXCEPT !.buckets[g.idx][g.pos] = r1,
                                         !.total_pending = g.q.total_pending + 1]]

(* a queue_push that tests the shutdown flag and rejects once it is set *)
queue_push_gated(q, user_id, chat_id, text, clock, alloc_ok) ==
    IF q.shutdown # 0 THEN [rc |-> 0 - 1, q |-> q]
    ELSE CHOOSE res \in {push_ring(g, chat_id, text, clock) :
                           g \in {ring_get_or_create(q, user_id, alloc_ok)}} : TRUE

(* queue_push between lock and unlock; rc 0 also means the condition was signalled
   (g is evaluated once) *)
queue_push(q, user_id, chat_id, text, clock, alloc_ok) ==
    CHOOSE res \in {push_ring(g, chat_id, text, clock) :
                      g \in {ring_get_or_create(q, user_id, alloc_ok)}} : TRUE

(* a wait loop that does not test the shutdown flag *)
pop_must_wait_unless_pending(q) == q.total_pending = 0

(* the condition of the wait loop of queue_pop *)
pop_must_wait(q) == q.total_pending = 0 /\ q.shutdown = 0

(* line 225: the End test of queue_pop *)
pop_at_end_eager(q) == q.shutdown # 0

pop_at_end(q) == q.shutdown # 0 /\ q.total_pending = 0

(* lines 232-249 of queue_pop, on what ring_pop_any returned *)
pop_result(p, q, out) ==
    IF p.found = 0 THEN [rc |-> 0 - 1, q |-> q, out |-> out]
    ELSE [rc |-> 0,
          q |-> p.q,
          out |-> [user_id |-> p.user_id,
                   chat_id |-> p.slot.chat_id,
                   text |-> TruncText(p.slot.text),
                   ingress_sec |-> p.slot.ingress_sec]]

(* queue_pop after the wait loop, up to unlock *)
queue_pop(q, out) ==
    IF pop_at_end(q) THEN [rc |-> 0 - 1, q |-> q, out |-> out]
    ELSE CHOOSE res \in {pop_result(p, q, out) : p \in {ring_pop_any(q)}} : TRUE

queue_shutdown(q) == [q EXCEPT !.shutdown = 1]

queue_depth(q) == q.total_pending

RECURSIVE SumLen(_, _)
SumLen(f, b) == IF b < 0 THEN 0 ELSE Len(f[b]) + SumLen(f, b - 1)

queue_ring_count(q) == SumLen(q.buckets, QUEUE_BUCKETS - 1)

(* ---------------------------------------------------------------------- *)
(* State                                                                   *)
(* ---------------------------------------------------------------------- *)
VARIABLES
    g_queue,    \* the global queue of queue.c
    now,        \* CLOCK_MONOTONIC, in seconds
    pc,         \* per consumer thread: where it stands in queue_pop / in worker_main
    out,        \* per consumer thread: the QueueMsg its last successful pop filled
    g_running,  \* the running flag that on_signal clears
    main_pc,    \* where main stands: "loop", "shutdown", "join", "exit"
    reply_delay,\* wa->reply_delay, from the configuration
    attempts,   \* per sender: queue_push calls made so far (the producer's loop index)
    push_rc,    \* what the last queue_push returned to its caller (99 = none yet)
    pushed,     \* history: per sender, the text ids (> 0) of the successful pushes, in order
    popped,     \* history: per sender, the text ids (> 0) queue_pop returned, in order
    last_user,  \* history: user_id of the most recent successful pop (0 = none)
    wl_ids,     \* the Whitelist of main: ids[0 .. count), as a sequence
    wl_file,    \* the file at wl->path
    wl_tmp,     \* the file at wl->path ".tmp"
    wl_pc,      \* where the thread holding the write lock stands in whitelist_save
    wl_rc,      \* what the last whitelist_load / _add / _remove returned (99 = none yet)
    wl_call,    \* history: the last whitelist call (op, id), the number of calls made so
                \* far (n) and the ids in memory when it was made (before); for a
                \* command also its text and what calloc answered (alloc_ok)
    wl_saved,   \* history: the file as whitelist_load left it (init), whether a rename
                \* has succeeded since (done) and the ids in memory at the last one (ids)
    admin_user_id, \* cfg->admin_user_id
    cmd_rc,     \* what the last cmd_dispatch returned (99 = none yet)
    home_group_id, \* cfg->home_group_id
    webhook,    \* the webhook server: g_webhook, g_pb_pool and the requests in flight
    logger,     \* the circular log: its file and g_fp, g_max_bytes, g_write_pos,
                \* g_overwriting, g_initialised
    llm,        \* the completion text that llm_chat hands to llm_strip_think_tags
    writers,    \* the threads inside log_write and what has been put on stderr
    reader,     \* the process that runs log_read_last_n or log_follow on the log file
    wpool,      \* per worker its completion handle (llm), and history: what the workers
                \* have asked of the completion service and sent to the chats (replies)
    rw          \* wl->lock and the threads calling into whitelist.c at the same time

(* the access list, its files and the command layer *)
wlv == <<wl_ids, wl_file, wl_tmp, wl_pc, wl_rc, wl_call, wl_saved, admin_user_id, cmd_rc>>

(* the webhook server, the log and the rest of the configuration *)
(* the completion client *)
morev == <<llm, writers, reader, wpool, rw>>

extv == <<home_group_id, webhook, logger, morev>>

vars == <<g_queue, now, pc, out, g_running, main_pc, reply_delay,
          attempts, push_rc, pushed, popped, last_user, wlv, extv>>

(* no completion has been asked for *)
MoreUnset ==
    /\ llm = [pc |-> "unset"]
    /\ writers = [stderr |-> <<>>]
    /\ reader = [pc |-> "none"]
    /\ wpool = [replies |-> <<>>]
    /\ rw = [writer |-> "none"]

(* the same, but for the variables named in S, which the caller sets *)
ExtUnsetBut(S) ==
    /\ home_group_id = 0
    /\ IF "webhook" \in S THEN TRUE ELSE webhook = [running |-> FALSE]
    /\ IF "logger" \in S THEN TRUE ELSE logger = [g_initialised |-> 0]
    /\ IF "llm" \in S THEN TRUE ELSE llm = [pc |-> "unset"]
    /\ IF "writers" \in S THEN TRUE ELSE writers = [stderr |-> <<>>]
    /\ IF "reader" \in S THEN TRUE ELSE reader = [pc |-> "none"]
    /\ IF "wpool" \in S THEN TRUE ELSE wpool = [replies |-> <<>>]
    /\ IF "rw" \in S THEN TRUE ELSE rw = [writer |-> "none"]

(* before webhook_start and log_init: nothing listens and no log is open *)
ExtUnset ==
    /\ home_group_id = 0
    /\ webhook = [running |-> FALSE]
    /\ logger = [g_initialised |-> 0]
    /\ MoreUnset

(* a file that does not exist (fopen fails with ENOENT) *)
NoFile == [exists |-> FALSE, lines |-> <<>>]

(* the access list before whitelist_load: memset 0, nothing called *)
WlUnloaded ==
    /\ wl_ids = <<>>
    /\ wl_file = NoFile
    /\ wl_tmp = NoFile
    /\ wl_pc = "idle"
    /\ wl_rc = 99
    /\ wl_call = [op |-> "none", id |-> 0, n |-> 0, before |-> <<>>]
    /\ wl_saved = [init |-> NoFile, ids |-> <<>>, done |-> FALSE]
    /\ admin_user_id = 0
    /\ cmd_rc = 99

(* what the queue operations never touch *)
poolv == <<g_running, main_pc, reply_delay>>

RECURSIVE SumOver(_, _)
SumOver(f, S) == IF S = {} THEN 0
                 ELSE LET x == CHOOSE y \in S : TRUE IN f[x] + SumOver(f, S \ {x})

TotalAttempts == SumOver(attempts, Senders)

Waiters == {t \in Threads : pc[t] = "wait"}

cond_signal_none(p, w) == p

(* pthread_cond_signal: wakes one waiter w if there is any *)
cond_signal(p, w) == IF w \in Threads /\ p[w] = "wait" THEN [p EXCEPT ![w] = "woken"] ELSE p

cond_broadcast_none(p) == p

(* pthread_cond_broadcast: wakes every waiter *)
cond_broadcast(p) == [t \in Threads |-> IF p[t] = "wait" THEN "woken" ELSE p[t]]

InitWith(rd) ==
    /\ \E rs \in RingSizeArgs : g_queue = queue_init(rs)
    /\ now = 0
    /\ pc = [t \in Threads |-> "call"]
    /\ out = [t \in Threads |-> NoMsg]
    /\ g_running = 1
    /\ main_pc = "loop"
    /\ reply_delay = rd
    /\ attempts = [s \in Senders |-> 0]
    /\ push_rc = 99
    /\ pushed = [s \in Senders |-> <<>>]
    /\ popped = [s \in Senders |-> <<>>]
    /\ last_user = 0
    /\ WlUnloaded
    /\ ExtUnset

Init == InitWith(0)

(* the monotonic clock advances *)
Tick ==
    /\ now < MaxTime
    /\ now' = now + 1
    /\ UNCHANGED <<extv, wlv, g_queue, pc, out, poolv, attempts, push_rc, pushed, popped, last_user>>

(* a producer calls queue_push(s, s, text) with its next text *)
Push(s) ==
    /\ TotalAttempts < MaxPush
    /\ \E len \in TextLens, ok \in AllocOutcomes :
         \E res \in {queue_push(g_queue, s, s, [id |-> attempts[s] + 1, len |-> len], now, ok)} :
             /\ g_queue' = res.q
             /\ push_rc' = res.rc
             /\ attempts' = [attempts EXCEPT ![s] = attempts[s] + 1]
             /\ pushed' = IF res.rc = 0 THEN [pushed EXCEPT ![s] = Append(pushed[s], attempts[s] + 1)]
                          ELSE pushed
             /\ IF res.rc = 0 /\ Waiters # {}
                THEN \E w \in Waiters : pc' = cond_signal(pc, w)
                ELSE pc' = pc
    /\ UNCHANGED <<extv, wlv, now, out, poolv, popped, last_user>>

(* queue_pop from the test of the wait loop on, by thread t holding the mutex;
   the caller goes to pc_ok when queue_pop returns 0 and to pc_end when it returns -1 *)
PopLocked(t, pc_ok, pc_end) ==
    IF pop_must_wait(g_queue)
    THEN /\ pc' = [pc EXCEPT ![t] = "wait"]
         /\ UNCHANGED <<g_queue, out, popped, last_user>>
    ELSE \E res \in {queue_pop(g_queue, out[t])} :
             /\ g_queue' = res.q
             /\ out' = [out EXCEPT ![t] = res.out]
             /\ pc' = [pc EXCEPT ![t] = IF res.rc = 0 THEN pc_ok ELSE pc_end]
             /\ popped' = IF res.rc = 0 /\ res.out.text.id > 0
                          THEN [popped EXCEPT ![res.out.user_id] = Append(@, res.out.text.id)]
                          ELSE popped
             /\ last_user' = IF res.rc = 0 THEN res.out.user_id ELSE last_user

(* consumer thread t, looping while (queue_pop(&out) == 0), calls queue_pop *)
PopCall(t) ==
    /\ pc[t] = "call"
    /\ PopLocked(t, "call", "done")
    /\ UNCHANGED <<extv, wlv, now, poolv, attempts, push_rc, pushed>>

(* thread t returns from pthread_cond_wait with the mutex and tests the loop again *)
PopWake(t) ==
    /\ pc[t] = "woken"
    /\ PopLocked(t, "call", "done")
    /\ UNCHANGED <<extv, wlv, now, poolv, attempts, push_rc, pushed>>

(* pthread_cond_wait may return without a signal *)
SpuriousWake(t) ==
    /\ pc[t] = "wait"
    /\ pc' = [pc EXCEPT ![t] = "woken"]
    /\ UNCHANGED <<extv, wlv, g_queue, now, out, poolv, attempts, push_rc, pushed, popped, last_user>>

(* queue_shutdown *)
Shutdown ==
    /\ g_queue' = queue_shutdown(g_queue)
    /\ pc' = cond_broadcast(pc)
    /\ UNCHANGED <<extv, wlv, now, out, poolv, attempts, push_rc, pushed, popped, last_user>>

Next ==
    \/ \E s \in Senders : Push(s)
    \/ \E t \in Threads : PopCall(t)
    \/ \E t \in Threads : PopWake(t)
    \/ \E t \in Threads : SpuriousWake(t)
    \/ Shutdown

Spec == Init /\ [][Next]_vars

(* the scheduler lets every thread that can go on in queue_pop do so *)
PopFairness == \A t \in Threads : WF_vars(PopCall(t)) /\ WF_vars(PopWake(t))

FairSpec == Spec /\ PopFairness

(* ---------------------------------------------------------------------- *)
(* Unbounded load: senders push without end while consumers keep popping   *)
(* ---------------------------------------------------------------------- *)
(* sender s pushes one more message; these messages carry text id 0 and are
   not recorded in the histories *)
SpamPush(s) ==
    /\ \E len \in TextLens, ok \in AllocOutcomes :
         \E res \in {queue_push(g_queue, s, s, [id |-> 0, len |-> len], now, ok)} :
             /\ g_queue' = res.q
             /\ push_rc' = res.rc
             /\ IF res.rc = 0 /\ Waiters # {}
                THEN \E w \in Waiters : pc' = cond_signal(pc, w)
                ELSE pc' = pc
    /\ UNCHANGED <<extv, wlv, now, out, poolv, attempts, pushed, popped, last_user>>

(* one sender pushes the one message (text id 1) that the histories follow *)
MarkedPush(s) ==
    /\ TotalAttempts = 0
    /\ Push(s)

NextSpam ==
    \/ \E s \in Spammers : SpamPush(s)
    \/ \E s \in Senders : MarkedPush(s)
    \/ \E t \in Threads : PopCall(t)
    \/ \E t \in Threads : PopWake(t)
    \/ \E t \in Threads : SpuriousWake(t)

SpecSpam == Init /\ [][NextSpam]_vars /\ PopFairness

(* ---------------------------------------------------------------------- *)
(* The worker pool: worker_main and the shutdown sequence of main          *)
(* ---------------------------------------------------------------------- *)
ReplyDelays == {0, 1}

InitPool == \E rd \in ReplyDelays : InitWith(rd)

(* queue_destroy: every ring freed, total_pending cleared *)
queue_destroy(q) == [q EXCEPT !.buckets = [b \in 0..(QUEUE_BUCKETS - 1) |-> <<>>],
                              !.total_pending = 0]

(* a worker that does not pace *)
pacing_wait_none(delay, msg, clock) == 0

(* lines 81-83 of worker_main: the pacing wait for msg at clock time clock *)
pacing_wait(delay, msg, clock) == delay - (clock - msg.ingress_sec)

Terminated(t) == pc[t] \in {"done", "exit"}

(* on_signal *)
Signal ==
    /\ g_running = 1
    /\ g_running' = 0
    /\ UNCHANGED <<extv, wlv, g_queue, now, pc, out, main_pc, reply_delay,
                   attempts, push_rc, pushed, popped, last_user>>

(* handle_update enqueues a message while main is in its update loop *)
MainUpdate(s) ==
    /\ main_pc = "loop"
    /\ TotalAttempts < MaxUpdates
    /\ Push(s)

(* main leaves its loop: the running flag is 0, or webhook_start failed *)
MainLeave ==
    /\ main_pc = "loop"
    /\ g_running = 0 \/ TotalAttempts = 0
    /\ main_pc' = "shutdown"
    /\ UNCHANGED <<extv, wlv, g_queue, now, pc, out, g_running, reply_delay,
                   attempts, push_rc, pushed, popped, last_user>>

(* main calls queue_shutdown *)
MainShutdown ==
    /\ main_pc = "shutdown"
    /\ g_queue' = queue_shutdown(g_queue)
    /\ pc' = cond_broadcast(pc)
    /\ main_pc' = "join"
    /\ UNCHANGED <<extv, wlv, now, out, g_running, reply_delay,
                   attempts, push_rc, pushed, popped, last_user>>

(* main has joined every worker and calls queue_destroy *)
MainJoin ==
    /\ main_pc = "join"
    /\ \A t \in Threads : Terminated(t)
    /\ g_queue' = queue_destroy(g_queue)
    /\ main_pc' = "exit"
    /\ UNCHANGED <<extv, wlv, now, pc, out, g_running, reply_delay,
                   attempts, push_rc, pushed, popped, last_user>>

(* worker t calls queue_pop at the top of its loop *)
WorkerPop(t) ==
    /\ pc[t] = "call"
    /\ PopLocked(t, "got", "done")
    /\ UNCHANGED <<extv, wlv, now, poolv, attempts, push_rc, pushed>>

(* worker t returns from pthread_cond_wait inside queue_pop *)
WorkerWake(t) ==
    /\ pc[t] = "woken"
    /\ PopLocked(t, "got", "done")
    /\ UNCHANGED <<extv, wlv, now, poolv, attempts, push_rc, pushed>>

(* lines 81-84: worker t computes the pacing wait and sleeps if it is positive *)
WorkerPace(t) ==
    /\ pc[t] = "got"
    /\ pc' = [pc EXCEPT ![t] = IF pacing_wait(reply_delay, out[t], now) > 0
                               THEN "sleep" ELSE "send"]
    /\ UNCHANGED <<extv, wlv, g_queue, now, out, poolv, attempts, push_rc, pushed, popped, last_user>>

(* lines 88-99: nanosleep has run its time; the worker exits if the flag is 0 *)
WorkerSleepDone(t) ==
    /\ pc[t] = "sleep"
    /\ now >= out[t].ingress_sec + reply_delay
    /\ pc' = [pc EXCEPT ![t] = IF g_running = 0 THEN "exit" ELSE "send"]
    /\ UNCHANGED <<extv, wlv, g_queue, now, out, poolv, attempts, push_rc, pushed, popped, last_user>>

(* lines 88-99: nanosleep fails with EINTR; with the flag at 0 the loop breaks and
   the worker exits, otherwise it sleeps on for the remaining time *)
WorkerSleepIntr(t) ==
    /\ pc[t] = "sleep"
    /\ g_running = 0
    /\ pc' = [pc EXCEPT ![t] = "exit"]
    /\ UNCHANGED <<extv, wlv, g_queue, now, out, poolv, attempts, push_rc, pushed, popped, last_user>>

(* lines 102-116: the acknowledgment, the completion and the reply *)
WorkerSend(t) ==
    /\ pc[t] = "send"
    /\ pc' = [pc EXCEPT ![t] = "call"]
    /\ UNCHANGED <<extv, wlv, g_queue, now, out, poolv, attempts, push_rc, pushed, popped, last_user>>

NextPool ==
    \/ Tick
    \/ Signal
    \/ \E s \in Senders : MainUpdate(s)
    \/ MainLeave
    \/ MainShutdown
    \/ MainJoin
    \/ \E t \in Threads : WorkerPop(t)
    \/ \E t \in Threads : WorkerWake(t)
    \/ \E t \in Threads : SpuriousWake(t)
    \/ \E t \in Threads : WorkerPace(t)
    \/ \E t \in Threads : WorkerSleepDone(t)
    \/ \E t \in Threads : WorkerSleepIntr(t)
    \/ \E t \in Threads : WorkerSend(t)

SpecPool == InitPool /\ [][NextPool]_vars

(* ---------------------------------------------------------------------- *)
(* Views of the queue used by the properties                               *)
(* ---------------------------------------------------------------------- *)
(* the <<bucket, chain position>> of every ring reachable from a bucket *)
RingPositions(q) ==
    UNION {{<<b, p>> : p \in 1..Len(q.buckets[b])} : b \in 0..(QUEUE_BUCKETS - 1)}

RingAt(q, bp) == q.buckets[bp[1]][bp[2]]

(* sum of count over all reachable rings *)
SumCounts(q) ==
    Cardinality(UNION {{<<bp, k>> : k \in 1..RingAt(q, bp).count} : bp \in RingPositions(q)})

HasRing(q, s) == ChainFind(q.buckets[BucketOf[s]], s) > 0

RingOf(q, s) == q.buckets[BucketOf[s]][ChainFind(q.buckets[BucketOf[s]], s)]

(* the queued slots of a ring, oldest first *)
RingSlots(r) == [k \in 1..r.count |-> r.slots[(r.head + k - 1) % r.cap]]

(* the text ids queued for sender s, oldest first *)
PendingIds(q, s) ==
    IF HasRing(q, s) THEN [k \in 1..RingOf(q, s).count |-> RingSlots(RingOf(q, s))[k].text.id]
    ELSE <<>>

Pending(q, s) == HasRing(q, s) /\ RingOf(q, s).count > 0

IsPrefix(a, b) == Len(a) <= Len(b) /\ \A k \in 1..Len(a) : a[k] = b[k]

PopStep(t) == PopCall(t) \/ PopWake(t)

(* ---------------------------------------------------------------------- *)
(* C1: per-sender FIFO. For every sender, the sequence of texts returned   *)
(* by queue_pop (in the order of the pops' critical sections) is a prefix  *)
(* of the sequence of that sender's successful pushes.                     *)
(* ---------------------------------------------------------------------- *)
C1_PerSenderFifo == \A s \in Senders : IsPrefix(popped[s], pushed[s])

(* a sender's ring was drained and freed, re-created by a later push and popped
   again: two pops, and the ring in use has had exactly one pop *)
C1_Witness ==
    \E s \in Senders : /\ Len(popped[s]) = 2
                       /\ HasRing(g_queue, s)
                       /\ RingOf(g_queue, s).head = 1

(* ---------------------------------------------------------------------- *)
(* C2: every successfully pushed message is returned to exactly one        *)
(* consumer: at any time the pushes of a sender are its pops followed by   *)
(* what is still queued (nothing twice, nothing invented, nothing lost), a *)
(* pop fills only the caller's out, and when a consumer gets End every     *)
(* message pushed so far has been returned.                                *)
(* ---------------------------------------------------------------------- *)
C2_Conservation == \A s \in Senders : pushed[s] = popped[s] \o PendingIds(g_queue, s)

C2_PopStep ==
    \A t \in Threads :
        PopStep(t) =>
            /\ \A u \in Threads \ {t} : out'[u] = out[u]
            /\ popped' # popped =>
                  /\ out'[t].user_id = last_user'
                  /\ out'[t].text.id = popped'[last_user'][Len(popped'[last_user'])]
            /\ pc'[t] = "done" => \A s \in Senders : popped'[s] = pushed'[s]

C2_ExactlyOnce == [](C2_Conservation) /\ [][C2_PopStep]_vars

(* both consumers have received messages, then both got End *)
C2_Witness ==
    /\ \A t \in Threads : pc[t] = "done" /\ out[t] # NoMsg
    /\ SumOver([s \in Senders |-> Len(popped[s])], Senders) >= 3

(* ---------------------------------------------------------------------- *)
(* C3: drop-newest. A queue_push for a sender whose ring holds cap         *)
(* messages returns -1 and leaves the whole queue unchanged.               *)
(* ---------------------------------------------------------------------- *)
C3_PushStep ==
    \A s \in Senders :
        (/\ attempts'[s] = attempts[s] + 1
         /\ HasRing(g_queue, s)
         /\ RingOf(g_queue, s).count = RingOf(g_queue, s).cap)
        => (push_rc' = 0 - 1 /\ g_queue' = g_queue /\ pushed' = pushed)

C3_DropNewest == [][C3_PushStep]_vars

(* a push has just been rejected on a full ring *)
C3_Witness ==
    /\ push_rc = 0 - 1
    /\ \E s \in Senders : HasRing(g_queue, s) /\ RingOf(g_queue, s).count = RingOf(g_queue, s).cap

(* ---------------------------------------------------------------------- *)
(* C4: queue_pop returns End only when shutdown is set and total_pending   *)
(* is 0; a pop that sees total_pending > 0 returns the head message of a   *)
(* ring with count > 0, also after shutdown.                               *)
(* ---------------------------------------------------------------------- *)
C4_PopStep ==
    \A t \in Threads :
        PopStep(t) =>
            /\ pc'[t] = "done" => (g_queue.shutdown = 1 /\ g_queue.total_pending = 0)
            /\ g_queue.total_pending > 0 =>
                  /\ pc'[t] = "call"
                  /\ \E bp \in RingPositions(g_queue) :
                        /\ RingAt(g_queue, bp).count > 0
                        /\ out'[t].user_id = RingAt(g_queue, bp).user_id
                        /\ out'[t].text = RingSlots(RingAt(g_queue, bp))[1].text
                        /\ out'[t].chat_id = RingSlots(RingAt(g_queue, bp))[1].chat_id

C4_EndOnlyWhenDrained == [][C4_PopStep]_vars

(* a consumer got End after messages were popped under shutdown *)
C4_Witness ==
    /\ g_queue.shutdown = 1
    /\ g_queue.total_pending = 0
    /\ \E t \in Threads : pc[t] = "done"
    /\ \E s \in Senders : Len(popped[s]) >= 1

(* ---------------------------------------------------------------------- *)
(* C7: cross-bucket fairness. queue_pop never returns a message of the     *)
(* sender of the preceding successful pop while another sender whose id    *)
(* hashes to a different bucket has a pending message.                     *)
(* ---------------------------------------------------------------------- *)
C7_PopStep ==
    (popped' # popped /\ last_user' = last_user)
    => ~\E v \in Senders : /\ BucketOf[v] # BucketOf[last_user]
                           /\ Pending(g_queue, v)

C7_CrossBucketFairness == [][C7_PopStep]_vars

(* the last pop served sender 4 while sender 3, served before and in another
   bucket, still has a message queued, as has sender 4 *)
C7_Witness ==
    /\ last_user = 4
    /\ Len(popped[3]) >= 1
    /\ Pending(g_queue, 3)
    /\ Pending(g_queue, 4)

(* ---------------------------------------------------------------------- *)
(* C9: with the mutex released, total_pending (what queue_depth returns)   *)
(* is the sum of count over all rings reachable from the buckets.          *)
(* ---------------------------------------------------------------------- *)
C9_TotalPending == queue_depth(g_queue) = SumCounts(g_queue)

(* pushes and pops have happened and two rings are queued *)
C9_Witness ==
    /\ g_queue.total_pending >= 3
    /\ queue_ring_count(g_queue) >= 2
    /\ \E s \in Senders : Len(popped[s]) >= 1

(* ---------------------------------------------------------------------- *)
(* C10: ring lifecycle. With the mutex released a ring is reachable from   *)
(* a bucket chain iff its sender has a pending message (count >= 1), so    *)
(* queue_ring_count is the number of senders with pending messages.        *)
(* ---------------------------------------------------------------------- *)
C10_RingLifecycle ==
    /\ \A bp \in RingPositions(g_queue) : RingAt(g_queue, bp).count >= 1
    /\ \A s \in Senders : HasRing(g_queue, s) <=> Len(pushed[s]) > Len(popped[s])
    /\ queue_ring_count(g_queue)
         = Cardinality({s \in Senders : Len(pushed[s]) > Len(popped[s])})

(* sender 4's ring was drained and unlinked from behind sender 5's ring in the
   same bucket chain *)
C10_Witness ==
    /\ Len(popped[4]) >= 1
    /\ pushed[4] = popped[4]
    /\ ~HasRing(g_queue, 4)
    /\ HasRing(g_queue, 5)
    /\ Len(popped[5]) = 0

(* ---------------------------------------------------------------------- *)
(* C6: workers drain before exit. A worker leaves worker_main only after   *)
(* queue_pop has returned End, so no message is pending in the queue once  *)
(* every worker has exited (and main has not yet destroyed the queue).     *)
(* ---------------------------------------------------------------------- *)
C6_DrainBeforeExit ==
    /\ \A t \in Threads : pc[t] # "exit"
    /\ (main_pc # "exit" /\ \A t \in Threads : Terminated(t)) => g_queue.total_pending = 0

(* ---------------------------------------------------------------------- *)
(* C5: after queue_shutdown no thread is blocked in the condition wait of  *)
(* queue_pop, and every thread the broadcast woke returns from queue_pop.  *)
(* ---------------------------------------------------------------------- *)
C5_ShutdownUnblocks ==
    /\ [](g_queue.shutdown = 1 => \A t \in Threads : pc[t] # "wait")
    /\ \A t \in Threads :
          (g_queue.shutdown = 1 /\ pc[t] = "woken") ~> (pc[t] \in {"call", "done"})

(* queue_shutdown has woken a thread that was blocked on the empty queue *)
C5_Witness ==
    /\ g_queue.shutdown = 1
    /\ g_queue.total_pending = 0
    /\ TotalAttempts = 0
    /\ \E t \in Threads : pc[t] = "woken"

(* ---------------------------------------------------------------------- *)
(* C8: no starvation. While queue_pop keeps being called, every            *)
(* successfully pushed message of every sender is eventually returned,     *)
(* whatever other senders push meanwhile, same-bucket senders included.    *)
(* ---------------------------------------------------------------------- *)
C8_NoStarvation ==
    \A s \in Senders : (pushed[s] # <<>>) ~> (popped[s] = pushed[s])

(* C8 as amended: the message of a sender whose bucket holds no other       *)
(* sender's ring is eventually returned, whatever senders of other buckets *)
(* push meanwhile.                                                         *)
C8_NoCrossBucketStarvation ==
    \A s \in Senders :
        (\A v \in Senders \ {s} : BucketOf[v] # BucketOf[s])
        => ((pushed[s] # <<>>) ~> (popped[s] = pushed[s]))

(* sender 3's followed message was pushed behind a full ring of the spamming
   sender and has been returned while that ring is full again *)
C8_Witness ==
    /\ pushed[3] # <<>>
    /\ popped[3] = pushed[3]
    /\ \A v \in Spammers : HasRing(g_queue, v) /\ RingOf(g_queue, v).count = RingOf(g_queue, v).cap

(* ---------------------------------------------------------------------- *)
(* Filling one ring: queue_init with a ring size, then one sender pushes   *)
(* until a push is rejected (TEST(queue_property_capacity_pow2))           *)
(* ---------------------------------------------------------------------- *)
(* the ring sizes of the test, and the sizes around the configuration's maximum *)
FillRingSizes == {1, 3, 4, 5, 7, 15, 31, 255, 256, 257}

FillSender == 3

InitFill ==
    /\ \E rs \in FillRingSizes : g_queue = queue_init(rs)
    /\ now = 0
    /\ pc = [t \in Threads |-> "call"]
    /\ out = [t \in Threads |-> NoMsg]
    /\ g_running = 1
    /\ main_pc = "loop"
    /\ reply_delay = 0
    /\ attempts = [s \in Senders |-> 0]
    /\ push_rc = 99
    /\ pushed = [s \in Senders |-> <<>>]
    /\ popped = [s \in Senders |-> <<>>]
    /\ last_user = 0
    /\ WlUnloaded
    /\ ExtUnset

(* the test's loop: the next queue_push for the sender, until one has failed *)
FillPush ==
    /\ push_rc # 0 - 1
    /\ \E len \in TextLens, ok \in AllocOutcomes :
         \E res \in {queue_push(g_queue, FillSender, FillSender,
                                [id |-> attempts[FillSender] + 1, len |-> len], now, ok)} :
             /\ g_queue' = res.q
             /\ push_rc' = res.rc
             /\ attempts' = [attempts EXCEPT ![FillSender] = @ + 1]
             /\ pushed' = IF res.rc = 0
                          THEN [pushed EXCEPT ![FillSender] = Append(@, attempts[FillSender] + 1)]
                          ELSE pushed
    /\ UNCHANGED <<extv, wlv, now, pc, out, poolv, popped, last_user>>

NextFill == FillPush

SpecFill == InitFill /\ [][NextFill]_vars

(* ---------------------------------------------------------------------- *)
(* C11: ring capacity. For every ring_size > 0 given to queue_init the     *)
(* capacity of a sender's ring is ring_size rounded up to the next power   *)
(* of two, at least 4 and at most 256, and exactly cap consecutive pushes  *)
(* of one sender succeed before the next one fails.                        *)
(* ---------------------------------------------------------------------- *)
(* the least power of two that is >= n and >= 4 *)
C11_NextPow2(n) ==
    CHOOSE p \in {4, 8, 16, 32, 64, 128, 256, 512, 1024} : p >= n /\ (p = 4 \/ p \div 2 < n)

C11_CapIsNextPow2 ==
    /\ \A bp \in RingPositions(g_queue) :
          /\ RingAt(g_queue, bp).cap = C11_NextPow2(g_queue.ring_size)
          /\ RingAt(g_queue, bp).cap >= 4
    /\ push_rc = 0 => attempts[FillSender] <= C11_NextPow2(g_queue.ring_size)
    /\ push_rc = 0 - 1 => /\ Len(pushed[FillSender]) = C11_NextPow2(g_queue.ring_size)
                          /\ attempts[FillSender] = C11_NextPow2(g_queue.ring_size) + 1

C11_CapacityMax256 ==
    /\ C11_CapIsNextPow2
    /\ \A bp \in RingPositions(g_queue) : RingAt(g_queue, bp).cap <= 256

(* C11 as amended: the maximum of 256 holds for the ring sizes the         *)
(* configuration admits (ring_size <= 256); queue_init and round_up_pow2   *)
(* set no maximum themselves.                                              *)
C11_CapacityPow2 ==
    /\ C11_CapIsNextPow2
    /\ g_queue.ring_size <= 256
         => \A bp \in RingPositions(g_queue) : RingAt(g_queue, bp).cap <= 256

(* ring_size 255: 256 pushes have succeeded and the 257th has failed *)
C11_Witness ==
    /\ g_queue.ring_size = 255
    /\ push_rc = 0 - 1
    /\ Len(pushed[FillSender]) = 256

(* ---------------------------------------------------------------------- *)
(* C12: the shutdown flag gates only poppers. A queue_push succeeds        *)
(* exactly when the sender's ring is not full, before and after            *)
(* queue_shutdown alike, and queues its message behind the sender's        *)
(* pending ones; after shutdown a queue_pop returns a pending message      *)
(* while there is one and End only when every pushed message has been     *)
(* returned.                                                               *)
(* ---------------------------------------------------------------------- *)
C12_RingFull(s) == HasRing(g_queue, s) /\ RingOf(g_queue, s).count >= RingOf(g_queue, s).cap

C12_PushStep ==
    \A s \in Senders :
        attempts'[s] = attempts[s] + 1 =>
            /\ push_rc' = 0 <=> ~C12_RingFull(s)
            /\ push_rc' = 0 =>
                  /\ PendingIds(g_queue', s) = Append(PendingIds(g_queue, s), attempts'[s])
                  /\ g_queue'.total_pending = g_queue.total_pending + 1
            /\ g_queue'.shutdown = g_queue.shutdown

C12_PopStep ==
    \A t \in Threads :
        (PopStep(t) /\ g_queue.shutdown = 1) =>
            /\ (\E s \in Senders : Pending(g_queue, s)) =>
                  /\ pc'[t] = "call"
                  /\ Len(popped'[last_user']) = Len(popped[last_user']) + 1
            /\ pc'[t] = "done" => \A s \in Senders : ~Pending(g_queue, s) /\ popped[s] = pushed[s]

C12_PushAfterShutdown == [][C12_PushStep /\ C12_PopStep]_vars

(* a consumer has got End, so the queue was shut down and empty, and a push made
   after that has succeeded: its message is pending *)
C12_Witness ==
    /\ g_queue.shutdown = 1
    /\ \E t \in Threads : pc[t] = "done"
    /\ push_rc = 0
    /\ \E s \in Senders : Pending(g_queue, s)

(* ---------------------------------------------------------------------- *)
(* C13: minimum wait. A worker that is about to send the acknowledgment    *)
(* and the reply for a popped message does so no earlier than reply_delay  *)
(* seconds after the message's ingress timestamp.                          *)
(* ---------------------------------------------------------------------- *)
C13_MinimumWait ==
    \A t \in Threads : pc[t] = "send" => now - out[t].ingress_sec >= reply_delay

(* a worker is about to send a message exactly reply_delay = 1 second after its
   ingress, while the other worker holds a message whose wait has not yet passed *)
C13_Witness ==
    /\ reply_delay = 1
    /\ \E t \in Threads : pc[t] = "send" /\ now = out[t].ingress_sec + 1
    /\ \E t \in Threads : pc[t] = "sleep" /\ now = out[t].ingress_sec

(* ---------------------------------------------------------------------- *)
(* The worker pool under a fair scheduler                                  *)
(* ---------------------------------------------------------------------- *)
(* a nanosleep ends: it is interrupted, or its time has run (the clock of the
   model stops at MaxTime, the real one does not) *)
WorkerSleepEnd(t) == WorkerSleepDone(t) \/ WorkerSleepIntr(t)

(* every worker thread that can take its next step takes it: queue_pop goes on
   when the mutex is free, a sleep ends, a network call returns (libcurl's
   timeout, or xferinfo_cb aborting it once the running flag is 0), and main
   goes on once every pthread_join has returned *)
PoolFairness ==
    /\ \A t \in Threads :
          /\ WF_vars(WorkerPop(t))
          /\ WF_vars(WorkerWake(t))
          /\ WF_vars(WorkerPace(t))
          /\ WF_vars(WorkerSleepEnd(t))
          /\ WF_vars(WorkerSend(t))
    /\ WF_vars(MainJoin)

FairSpecPool == SpecPool /\ PoolFairness

(* ---------------------------------------------------------------------- *)
(* C14: shutdown terminates the pool. Once the running flag is 0, main has *)
(* left its update loop and called queue_shutdown, every worker returns    *)
(* from worker_main in the end and main's joins complete.                  *)
(* ---------------------------------------------------------------------- *)
C14_ShutdownTerminatesPool ==
    (g_running = 0 /\ main_pc = "join")
        ~> (main_pc = "exit" /\ \A t \in Threads : Terminated(t))

(* main has joined both workers after a signal: one left from its pacing sleep,
   the other when queue_pop returned End *)
C14_Witness ==
    /\ g_running = 0
    /\ main_pc = "exit"
    /\ \E t \in Threads : pc[t] = "exit"
    /\ \E t \in Threads : pc[t] = "done"

(* C37: no lost wakeup: no reachable state has a pending message, shutdown not set,
   and every consumer blocked in the condition wait of queue_pop with no wakeup
   pending *)
C37_NoLostWakeup ==
    ~(/\ g_queue.total_pending > 0
      /\ g_queue.shutdown = 0
      /\ \A t \in Threads : pc[t] = "wait")

(* a push has signalled one of two waiting consumers: a message is pending, one
   consumer has its wakeup pending and the other still waits *)
C37_Witness ==
    /\ g_queue.total_pending > 0
    /\ g_queue.shutdown = 0
    /\ push_rc = 0
    /\ \E t \in Threads : pc[t] = "woken"
    /\ \E t \in Threads : pc[t] = "wait"

(* ---------------------------------------------------------------------- *)
(* whitelist.c: the text of the access-list file                           *)
(* ---------------------------------------------------------------------- *)
WHITELIST_MAX == 256

(* a line of the file is the sequence of its characters, without the newline;
   lines are shorter than the 64-byte buffer of read_ids *)
DigitChars == <<"0", "1", "2", "3", "4", "5", "6", "7", "8", "9">>

IsDigit(c) == \E d \in 1..10 : DigitChars[d] = c

DigitValue(c) == (CHOOSE d \in 1..10 : DigitChars[d] = c) - 1

IsSpace(c) == c = " "

(* fprintf "%" PRId64: the decimal digits of a non-negative n *)
RECURSIVE FormatNat(_)
FormatNat(n) == IF n < 10 THEN <<DigitChars[n + 1]>>
                ELSE Append(FormatNat(n \div 10), DigitChars[(n % 10) + 1])

(* fprintf(fp, "%" PRId64 "\n", id): one line *)
FormatId(id) == IF id < 0 THEN <<"-">> \o FormatNat(0 - id) ELSE FormatNat(id)

(* the lines whitelist_save writes for ids *)
Serialize(ids) == [i \in 1..Len(ids) |-> FormatId(ids[i])]

(* index of the first character of line that is no blank, Len + 1 if none *)
FirstNonSpace(line) ==
    LET stops == {i \in 1..Len(line) : ~IsSpace(line[i])}
    IN  IF stops = {} THEN Len(line) + 1 ELSE CHOOSE i \in stops : \A j \in stops : i <= j

(* index of the first character of line at or after from that is no digit, Len + 1 if none *)
DigitsEnd(line, from) ==
    LET stops == {i \in from..Len(line) : ~IsDigit(line[i])}
    IN  IF stops = {} THEN Len(line) + 1 ELSE CHOOSE i \in stops : \A j \in stops : i <= j

(* the value of the digits line[from .. to - 1] *)
RECURSIVE DigitsValue(_, _, _)
DigitsValue(line, from, to) ==
    IF to <= from THEN 0
    ELSE (DigitsValue(line, from, to - 1) * 10) + DigitValue(line[to - 1])

(* sscanf(line, "%" SCNd64, &id) with the sign at s, the digits in d .. e - 1 *)
scan_digits(line, s, d, e) ==
    IF e = d THEN [n |-> 0, id |-> 0]
    ELSE [n |-> 1,
          id |-> IF d > s /\ line[s] = "-" THEN 0 - DigitsValue(line, d, e)
                 ELSE DigitsValue(line, d, e)]

(* sscanf(line, "%" SCNd64, &id) with the first non-blank character at s *)
scan_signed(line, s) ==
    CHOOSE r \in {scan_digits(line, s, d, DigitsEnd(line, d)) :
                    d \in {IF s <= Len(line) /\ line[s] \in {"-", "+"} THEN s + 1 ELSE s}} : TRUE

(* sscanf(line, "%" SCNd64, &id): blanks are skipped, then an optional sign and the
   longest run of digits is converted; n is the number of conversions *)
sscanf_i64(line) ==
    CHOOSE r \in {scan_signed(line, s) : s \in {FirstNonSpace(line)}} : TRUE

(* ---------------------------------------------------------------------- *)
(* whitelist.c: the list in memory                                         *)
(* ---------------------------------------------------------------------- *)
(* cmp_i64(a, b) < 0 *)
cmp_i64_less(a, b) == a < b

(* qsort(wl->ids, count, sizeof(int64_t), cmp_i64) *)
qsort(ids) == SortSeq(ids, cmp_i64_less)

(* one turn of the loop of bsearch_idx, with mid computed *)
RECURSIVE bsearch_from(_, _, _, _)
bsearch_mid(ids, user_id, lo, hi, mid) ==
    IF ids[mid + 1] < user_id THEN bsearch_from(ids, user_id, mid + 1, hi)
    ELSE IF ids[mid + 1] > user_id THEN bsearch_from(ids, user_id, lo, mid)
    ELSE [found |-> TRUE, idx |-> mid]

bsearch_from(ids, user_id, lo, hi) ==
    IF lo >= hi THEN [found |-> FALSE, idx |-> lo]
    ELSE CHOOSE r \in {bsearch_mid(ids, user_id, l, h, l + ((h - l) \div 2)) :
                         l \in {lo}, h \in {hi}} : TRUE

(* bsearch_idx: idx counts from 0 as in the code *)
bsearch_idx(ids, user_id) == bsearch_from(ids, user_id, 0, Len(ids))

whitelist_contains(ids, user_id) == bsearch_idx(ids, user_id).found

whitelist_count(ids) == Len(ids)

(* lines 58-67 of read_ids: the ids sscanf converts, in file order *)
Converts(line) == sscanf_i64(line).n = 1

scanned_ids(lines) ==
    CHOOSE r \in {[i \in 1..Len(ok) |-> sscanf_i64(ok[i]).id] :
                    ok \in {SelectSeq(lines, Converts)}} : TRUE

(* the loop stops taking ids once count has reached WHITELIST_MAX *)
first_ids(ids) == IF Len(ids) > WHITELIST_MAX THEN SubSeq(ids, 1, WHITELIST_MAX) ELSE ids

(* read_ids: a missing file is created empty (when fopen "w" succeeds); an existing
   one that cannot be opened is an error; one that can is read and the ids are sorted.
   open_ok is the outcome of the fopen made *)
read_ids(file, open_ok) ==
    IF ~file.exists
    THEN [rc |-> 0, ids |-> <<>>,
          file |-> IF open_ok THEN [exists |-> TRUE, lines |-> <<>>] ELSE file]
    ELSE IF ~open_ok THEN [rc |-> 0 - 1, ids |-> <<>>, file |-> file]
    ELSE [rc |-> 0, ids |-> qsort(first_ids(scanned_ids(file.lines))), file |-> file]

(* whitelist_load: memset, then read_ids *)
whitelist_load(file, open_ok) == read_ids(file, open_ok)

(* lines 136-152 of whitelist_add with bsearch_idx's result b: save says whether
   whitelist_save is called *)
add_at(ids, user_id, b) ==
    IF b.found THEN [rc |-> 1, ids |-> ids, save |-> FALSE]
    ELSE IF Len(ids) >= WHITELIST_MAX THEN [rc |-> 0 - 1, ids |-> ids, save |-> FALSE]
    ELSE [rc |-> 0,
          ids |-> SubSeq(ids, 1, b.idx) \o <<user_id>> \o SubSeq(ids, b.idx + 1, Len(ids)),
          save |-> TRUE]

add_ids(ids, user_id) ==
    CHOOSE r \in {add_at(ids, user_id, b) : b \in {bsearch_idx(ids, user_id)}} : TRUE

(* lines 161-173 of whitelist_remove with bsearch_idx's result b *)
remove_at(ids, user_id, b) ==
    IF ~b.found THEN [rc |-> 1, ids |-> ids, save |-> FALSE]
    ELSE [rc |-> 0,
          ids |-> SubSeq(ids, 1, b.idx) \o SubSeq(ids, b.idx + 2, Len(ids)),
          save |-> TRUE]

remove_ids(ids, user_id) ==
    CHOOSE r \in {remove_at(ids, user_id, b) : b \in {bsearch_idx(ids, user_id)}} : TRUE

(* ---------------------------------------------------------------------- *)
(* whitelist.c: whitelist_save, step by step; fs is [file, tmp]            *)
(* ---------------------------------------------------------------------- *)
(* a save that truncates the target itself on opening it, as fopen(path, "w") does *)
save_open_in_place(fs, ok) ==
    IF ok THEN [rc |-> 0, fs |-> [file |-> [exists |-> TRUE, lines |-> <<>>],
                                  tmp |-> [exists |-> TRUE, lines |-> <<>>]]]
    ELSE [rc |-> 0 - 1, fs |-> fs]

(* fopen(tmp_path, "w") *)
save_open(fs, ok) ==
    IF ok THEN [rc |-> 0, fs |-> [fs EXCEPT !.tmp = [exists |-> TRUE, lines |-> <<>>]]]
    ELSE [rc |-> 0 - 1, fs |-> fs]

(* one fprintf of the loop, writing the next id; on failure fclose and
   remove(tmp_path) *)
save_write(fs, ids, ok) ==
    IF ok THEN [rc |-> 0,
                fs |-> [fs EXCEPT !.tmp.lines = Append(@, FormatId(ids[Len(@) + 1]))]]
    ELSE [rc |-> 0 - 1, fs |-> [fs EXCEPT !.tmp = NoFile]]

(* fclose; on failure remove(tmp_path) *)
save_close(fs, ok) ==
    IF ok THEN [rc |-> 0, fs |-> fs]
    ELSE [rc |-> 0 - 1, fs |-> [fs EXCEPT !.tmp = NoFile]]

(* rename(tmp_path, wl->path); on failure remove(tmp_path) *)
save_rename(fs, ok) ==
    IF ok THEN [rc |-> 0, fs |-> [file |-> fs.tmp, tmp |-> NoFile]]
    ELSE [rc |-> 0 - 1, fs |-> [fs EXCEPT !.tmp = NoFile]]

(* the steps of whitelist_save; "write" is taken once per id *)
SaveSteps == {"open", "write", "close", "rename"}

SaveFailures == SaveSteps \cup {"none"}

save_step(ids, fs, step, ok) ==
    IF step = "open" THEN save_open(fs, ok)
    ELSE IF step = "write" THEN save_write(fs, ids, ok)
    ELSE IF step = "close" THEN save_close(fs, ok)
    ELSE save_rename(fs, ok)

(* the step that follows step when it has succeeded and left the files as fs *)
save_after(ids, fs, step) ==
    IF step \in {"open", "write"}
    THEN (IF Len(fs.tmp.lines) < Len(ids) THEN "write" ELSE "close")
    ELSE IF step = "close" THEN "rename"
    ELSE "idle"

(* whitelist_save from step on; the first step named fail_at fails *)
RECURSIVE save_from(_, _, _, _)
save_next(ids, r, step, fail_at) ==
    IF r.rc # 0 THEN r
    ELSE IF save_after(ids, r.fs, step) = "idle" THEN r
    ELSE save_from(ids, r.fs, save_after(ids, r.fs, step), fail_at)

save_from(ids, fs, step, fail_at) ==
    CHOOSE res \in {save_next(ids, r, step, fail_at) :
                      r \in {save_step(ids, fs, step, step # fail_at)}} : TRUE

whitelist_save(ids, fs, fail_at) == save_from(ids, fs, "open", fail_at)

(* whitelist_add as a whole: the list in memory, the files and the return value *)
add_saved(r, fs, fail_at) ==
    IF ~r.save THEN [rc |-> r.rc, ids |-> r.ids, fs |-> fs]
    ELSE CHOOSE res \in {[rc |-> sv.rc, ids |-> r.ids, fs |-> sv.fs] :
                           sv \in {whitelist_save(r.ids, fs, fail_at)}} : TRUE

whitelist_add(ids, fs, user_id, fail_at) ==
    CHOOSE res \in {add_saved(r, fs, fail_at) : r \in {add_ids(ids, user_id)}} : TRUE

(* whitelist_remove as a whole *)
whitelist_remove(ids, fs, user_id, fail_at) ==
    CHOOSE res \in {add_saved(r, fs, fail_at) : r \in {remove_ids(ids, user_id)}} : TRUE

(* ---------------------------------------------------------------------- *)
(* The access list in use: whitelist_load, then whitelist_add and          *)
(* whitelist_remove, each holding the write lock until its save has ended  *)
(* ---------------------------------------------------------------------- *)
MaxWlCalls == 2

(* the ids the callers pass *)
WlIds == {3, 5, 300}

(* the numbers 1 .. n, one per line *)
NumberedLines(from, to) == [i \in 1..(to - from + 1) |-> FormatId(from + i - 1)]

(* access-list files found at start-up: none; unsorted ids; blank and non-numeric
   lines, a repeated id and a number followed by text; more ids than the list
   holds; one id fewer than the list holds *)
WlFiles ==
    {NoFile,
     [exists |-> TRUE, lines |-> <<<<"7">>, <<"3">>>>],
     [exists |-> TRUE, lines |-> <<<<"5">>, <<"h", "i">>, <<>>, <<"3">>, <<"5">>,
                                   <<" ", "1", "2", "x">>, <<"-", "4">>>>],
     [exists |-> TRUE, lines |-> NumberedLines(1, WHITELIST_MAX + 1)],
     [exists |-> TRUE, lines |-> NumberedLines(2, WHITELIST_MAX)]}

InitWl ==
    /\ \E rs \in RingSizeArgs : g_queue = queue_init(rs)
    /\ now = 0
    /\ pc = [t \in Threads |-> "call"]
    /\ out = [t \in Threads |-> NoMsg]
    /\ g_running = 1
    /\ main_pc = "loop"
    /\ reply_delay = 0
    /\ attempts = [s \in Senders |-> 0]
    /\ push_rc = 99
    /\ pushed = [s \in Senders |-> <<>>]
    /\ popped = [s \in Senders |-> <<>>]
    /\ last_user = 0
    /\ wl_ids = <<>>
    /\ wl_file \in WlFiles
    /\ wl_tmp = NoFile
    /\ wl_pc = "idle"
    /\ wl_rc = 99
    /\ wl_call = [op |-> "none", id |-> 0, n |-> 0, before |-> <<>>]
    /\ wl_saved = [init |-> NoFile, ids |-> <<>>, done |-> FALSE]
    /\ admin_user_id = 0
    /\ cmd_rc = 99
    /\ ExtUnset

queuev == <<g_queue, now, pc, out, g_running, main_pc, reply_delay,
            attempts, push_rc, pushed, popped, last_user>>

WlLoaded == wl_call.op \notin {"none", "failed"}

(* main calls whitelist_load, and exits when it fails *)
WlLoad ==
    /\ wl_call.op = "none"
    /\ \E open_ok \in BOOLEAN :
         \E res \in {whitelist_load(wl_file, open_ok)} :
             /\ wl_ids' = res.ids
             /\ wl_file' = res.file
             /\ wl_rc' = res.rc
             /\ wl_saved' = [init |-> res.file, ids |-> <<>>, done |-> FALSE]
             /\ wl_call' = [op |-> IF res.rc = 0 THEN "load" ELSE "failed",
                            id |-> 0, n |-> 0, before |-> <<>>]
    /\ UNCHANGED <<extv, queuev, wl_tmp, wl_pc, admin_user_id, cmd_rc>>

(* a caller takes the write lock and runs whitelist_add or whitelist_remove up to
   its return, or up to its call of whitelist_save; r is add_ids or remove_ids *)
WlMutate(op, user_id, r) ==
    /\ WlLoaded
    /\ wl_pc = "idle"
    /\ wl_call.n < MaxWlCalls
    /\ wl_call' = [op |-> op, id |-> user_id, n |-> wl_call.n + 1, before |-> wl_ids]
    /\ wl_ids' = r.ids
    /\ wl_pc' = IF r.save THEN "open" ELSE "idle"
    /\ wl_rc' = r.rc
    /\ UNCHANGED <<extv, queuev, wl_file, wl_tmp, wl_saved, admin_user_id, cmd_rc>>

WlAdd(user_id) == \E r \in {add_ids(wl_ids, user_id)} : WlMutate("add", user_id, r)

WlRemove(user_id) == \E r \in {remove_ids(wl_ids, user_id)} : WlMutate("remove", user_id, r)

(* the next step of whitelist_save, which succeeds or fails; after the last step or
   a failure the caller gets its return value and the write lock is released *)
SaveStep(step) ==
    /\ wl_pc = step
    /\ \E ok \in BOOLEAN :
         \E r \in {save_step(wl_ids, [file |-> wl_file, tmp |-> wl_tmp], step, ok)} :
             /\ wl_file' = r.fs.file
             /\ wl_tmp' = r.fs.tmp
             /\ wl_rc' = r.rc
             /\ wl_pc' = IF r.rc # 0 THEN "idle" ELSE save_after(wl_ids, r.fs, step)
             /\ wl_saved' = IF r.rc = 0 /\ step = "rename"
                            THEN [wl_saved EXCEPT !.ids = wl_ids, !.done = TRUE]
                            ELSE wl_saved
    /\ UNCHANGED <<extv, queuev, wl_ids, wl_call, admin_user_id, cmd_rc>>

SaveOpen == SaveStep("open")

SaveWrite == SaveStep("write")

SaveClose == SaveStep("close")

SaveRename == SaveStep("rename")

NextWl ==
    \/ WlLoad
    \/ \E id \in WlIds : WlAdd(id)
    \/ \E id \in WlIds : WlRemove(id)
    \/ SaveOpen
    \/ SaveWrite
    \/ SaveClose
    \/ SaveRename

SpecWl == InitWl /\ [][NextWl]_vars

(* ---------------------------------------------------------------------- *)
(* Claims about the access list                                            *)
(* ---------------------------------------------------------------------- *)
(* the set of ids held in a list *)
IdSet(ids) == {ids[i] : i \in 1..Len(ids)}

(* the last call was op and has returned *)
WlReturned(op) == wl_call.op = op /\ wl_pc = "idle"

(* C16: after whitelist_load of any file content and after every later
   whitelist_add or whitelist_remove the ids in memory are strictly ascending:
   ids[i] < ids[i+1] for all i *)
C16_StrictlyAscending ==
    WlLoaded => \A i \in 1..(Len(wl_ids) - 1) : wl_ids[i] < wl_ids[i + 1]

(* whitelist_add(id) has put id, and nothing else, into the list it found *)
C17_Inserted ==
    /\ Len(wl_ids) = Len(wl_call.before) + 1
    /\ IdSet(wl_ids) = IdSet(wl_call.before) \cup {wl_call.id}

C17_WasAbsent == wl_call.id \notin IdSet(wl_call.before)

(* C17: whitelist_add(id) returns 0 exactly when id was absent and has been
   inserted, 1 exactly when id was already present, and -1 exactly when id is
   absent and the list already holds WHITELIST_MAX ids; whenever it returns 1 or
   -1 the list in memory is unchanged *)
C17_AddReturnCodes ==
    WlReturned("add") =>
        /\ (wl_rc = 0) <=> (C17_WasAbsent /\ C17_Inserted)
        /\ (wl_rc = 1) <=> ~C17_WasAbsent
        /\ (wl_rc = 0 - 1) <=> (C17_WasAbsent /\ Len(wl_call.before) = WHITELIST_MAX)
        /\ (wl_rc \in {1, 0 - 1}) => wl_ids = wl_call.before

C18_WasPresent == wl_call.id \in IdSet(wl_call.before)

(* C18: whitelist_remove(id) returns 0 exactly when id was present, and then
   whitelist_contains(id) is false afterwards while every other id is retained;
   it returns 1 exactly when id was absent, leaving the list unchanged *)
C18_RemoveReturnCodes ==
    WlReturned("remove") =>
        /\ (wl_rc = 0) <=> C18_WasPresent
        /\ (wl_rc = 0) => /\ ~whitelist_contains(wl_ids, wl_call.id)
                          /\ IdSet(wl_call.before) \ {wl_call.id} \subseteq IdSet(wl_ids)
        /\ (wl_rc = 1) <=> ~C18_WasPresent
        /\ (wl_rc = 1) => wl_ids = wl_call.before

(* the ids a fresh instance gets from whitelist_load of the file at the path *)
C19_Reloaded == whitelist_load(wl_file, TRUE).ids

(* C19: after any whitelist_add or whitelist_remove call has returned, with
   whatever result, loading the file into a fresh instance yields exactly the set
   of ids held in memory by the instance that made the call *)
C19_PersistenceRoundTrip ==
    (WlReturned("add") \/ WlReturned("remove")) => IdSet(C19_Reloaded) = IdSet(wl_ids)

(* C20: at every instant, also while a save is in progress or after one has failed
   part-way, the content at the access-list path is complete: it is the file as
   whitelist_load left it until a save has succeeded, and from then on the whole
   serialization of the list that the last successful save was given *)
C20_AtomicSave ==
    WlLoaded =>
        wl_file = IF wl_saved.done
                  THEN [exists |-> TRUE, lines |-> Serialize(wl_saved.ids)]
                  ELSE wl_saved.init

(* a save of a changed list has written some of its lines to the temporary file,
   after an earlier save has replaced the file at the path *)
C20_Witness ==
    /\ wl_pc = "write"
    /\ wl_tmp.exists
    /\ 0 < Len(wl_tmp.lines)
    /\ Len(wl_tmp.lines) < Len(wl_ids)
    /\ wl_saved.done
    /\ wl_saved.ids # wl_ids

(* ---------------------------------------------------------------------- *)
(* commands.c: characters and strings (a string is a sequence of            *)
(* one-character strings, without its terminator)                          *)
(* ---------------------------------------------------------------------- *)
(* the characters used, in the order of their codes *)
CharOrder ==
    <<"\t", "\n", "\r", " ", "+", "-", "/", "0", "1", "2", "3", "4", "5", "6", "7", "8", "9",
      ";", "<", "=", ">", "@",
      "A", "B", "C", "D", "E", "F", "G", "H", "I", "J", "K", "L", "M",
      "N", "O", "P", "Q", "R", "S", "T", "U", "V", "W", "X", "Y", "Z", "_",
      "a", "b", "c", "d", "e", "f", "g", "h", "i", "j", "k", "l", "m",
      "n", "o", "p", "q", "r", "s", "t", "u", "v", "w", "x", "y", "z">>

CharCode(c) == CHOOSE i \in 1..Len(CharOrder) : CharOrder[i] = c

(* tolower *)
ToLower(c) ==
    LET i == CharCode(c)
    IN  IF CharCode("A") <= i /\ i <= CharCode("Z") THEN CharOrder[i + CharCode("a") - CharCode("A")]
        ELSE c

(* strcmp(a, b): negative, zero or positive *)
strcmp(a, b) ==
    LET diff == {i \in 1..Len(a) : i > Len(b) \/ a[i] # b[i]}
        first == CHOOSE i \in diff : \A j \in diff : i <= j
    IN  IF diff = {} THEN (IF Len(a) = Len(b) THEN 0 ELSE 0 - 1)
        ELSE IF first > Len(b) THEN 1
        ELSE CharCode(a[first]) - CharCode(b[first])

(* strncasecmp(a, b, Len(b)) is 0, for an a of the length of b *)
SameIgnoringCase(a, b) ==
    Len(a) = Len(b) /\ \A i \in 1..Len(a) : ToLower(a[i]) = ToLower(b[i])

(* index of the first character of text at or after from that is in stops,
   Len + 1 (the terminator) if none *)
FirstOf(text, from, stops) ==
    LET hits == {i \in from..Len(text) : text[i] \in stops}
    IN  IF hits = {} THEN Len(text) + 1 ELSE CHOOSE i \in hits : \A j \in hits : i <= j

(* index of the first character of text at or after from that is no space *)
SkipSpaces(text, from) ==
    LET hits == {i \in from..Len(text) : text[i] # " "}
    IN  IF hits = {} THEN Len(text) + 1 ELSE CHOOSE i \in hits : \A j \in hits : i <= j

(* the rest of text from index from on *)
Rest(text, from) == SubSeq(text, from, Len(text))

(* sizeof(cmd) in cmd_dispatch *)
CMD_BUF_SIZE == 64

(* a NULL pointer result *)
NullArgs == [ok |-> FALSE, cmd |-> <<>>, args |-> <<>>]

(* lines 42-61 of parse_command: end is where the command name ends *)
parse_suffix(text, bot_username, end) ==
    LET cmd == SubSeq(text, 2, end - 1)
        at_end == FirstOf(text, end + 1, {" "})
    IN  IF end <= Len(text) /\ text[end] = "@"
        THEN (IF SameIgnoringCase(SubSeq(text, end + 1, at_end - 1), bot_username)
              THEN [ok |-> TRUE, cmd |-> cmd, args |-> Rest(text, SkipSpaces(text, at_end))]
              ELSE NullArgs)
        ELSE [ok |-> TRUE, cmd |-> cmd, args |-> Rest(text, SkipSpaces(text, end))]

(* parse_command: the bare command name and the argument string, or NULL *)
parse_command(text, cmd_buf_sz, bot_username) ==
    IF text = <<>> \/ text[1] # "/" THEN NullArgs
    ELSE LET end == FirstOf(text, 2, {" ", "@"})
         IN  IF end - 2 = 0 \/ end - 2 >= cmd_buf_sz THEN NullArgs
             ELSE parse_suffix(text, bot_username, end)

(* strtoll(args, &endptr, 10): the value and the index endptr points at (1 is
   args itself, Len + 1 the terminator) *)
strtoll_from(args, s, d, e) ==
    IF e = d THEN [value |-> 0, end |-> 1]
    ELSE [value |-> scan_digits(args, s, d, e).id, end |-> e]

strtoll(args) ==
    CHOOSE r \in {strtoll_from(args, s, d, DigitsEnd(args, d)) :
                    s \in {FirstNonSpace(args)},
                    d \in {IF FirstNonSpace(args) <= Len(args)
                              /\ args[FirstNonSpace(args)] \in {"-", "+"}
                           THEN FirstNonSpace(args) + 1 ELSE FirstNonSpace(args)}} : TRUE

(* endptr == args || *endptr != '\0' || target == 0 *)
invalid_target(args, t) == t.end = 1 \/ t.end <= Len(args) \/ t.value = 0

(* ---------------------------------------------------------------------- *)
(* commands.c: the replies, as format, arguments and strlen                *)
(* ---------------------------------------------------------------------- *)
Reply(fmt, args, len) == [id |-> [fmt |-> fmt, args |-> args], len |-> len]

(* the fixed replies of the handlers *)
ReplyTexts ==
    [start |-> Reply("Hello! I'm tgbot. Use /help to see available commands.", <<>>, 54),
     help |-> Reply("/start  - show greeting ...", <<>>, 188),
     denied |-> Reply("permission denied: admin only.", <<>>, 30),
     allow_usage |-> Reply("Usage: /allow <user_id>", <<>>, 23),
     revoke_usage |-> Reply("Usage: /revoke <user_id>", <<>>, 24),
     invalid_id |-> Reply("Invalid user ID.", <<>>, 16),
     already |-> Reply("User already whitelisted.", <<>>, 25),
     welcome |-> Reply("You have been granted access to this bot.", <<>>, 41),
     add_failed |-> Reply("Failed to add user (whitelist full?).", <<>>, 37),
     not_listed |-> Reply("User was not whitelisted.", <<>>, 25),
     remove_failed |-> Reply("Failed to remove user.", <<>>, 22)]

AddedReply(target) == Reply("User %d added to whitelist.", <<target>>, 25 + Len(FormatId(target)))

RemovedReply(target) == Reply("User %d removed from whitelist.", <<target>>, 29 + Len(FormatId(target)))

StatusReply(hours, mins, secs, depth, wl_count, workers) ==
    Reply("uptime: %dh %dm %ds, queue: %d pending, whitelist: %d user(s), workers: %d",
          <<hours, mins, secs, depth, wl_count, workers>>,
          59 + Len(FormatId(hours)) + Len(FormatId(mins)) + Len(FormatId(secs))
             + Len(FormatId(depth)) + Len(FormatId(wl_count)) + Len(FormatId(workers)))

(* ---------------------------------------------------------------------- *)
(* commands.c: the handlers. ctx is the CmdCtx with the configured admin   *)
(* id; st is what a handler can change: the queue (q), the access list in  *)
(* memory (ids) and its files (fs); env is what it meets: the clock, the   *)
(* outcome of calloc and the step at which a save fails                    *)
(* ---------------------------------------------------------------------- *)
(* queue_push(user_id, chat_id, reply), its return value ignored *)
push_reply(st, env, user_id, chat_id, reply) ==
    CHOOSE r \in {[st EXCEPT !.q = res.q] :
                    res \in {queue_push(st.q, user_id, chat_id, reply, env.clock, env.alloc_ok)}} : TRUE

(* the admin check with the comparison of the sender left out *)
permission_denied_unless_configured(ctx) == ctx.admin_user_id = 0

(* the admin check of cmd_allow, cmd_revoke and cmd_status *)
permission_denied(ctx) == ctx.admin_user_id = 0 \/ ctx.sender_id # ctx.admin_user_id

cmd_start(ctx, st, env) == push_reply(st, env, ctx.sender_id, ctx.chat_id, ReplyTexts.start)

cmd_help(ctx, st, env) == push_reply(st, env, ctx.sender_id, ctx.chat_id, ReplyTexts.help)

(* cmd_allow without the announcement to the target *)
allow_added_unannounced(ctx, target, st, env, r) ==
    LET st1 == [st EXCEPT !.ids = r.ids, !.fs = r.fs]
    IN  IF r.rc = 1 THEN push_reply(st1, env, ctx.sender_id, ctx.chat_id, ReplyTexts.already)
        ELSE IF r.rc = 0
        THEN push_reply(st1, env, ctx.sender_id, ctx.chat_id, AddedReply(target))
        ELSE push_reply(st1, env, ctx.sender_id, ctx.chat_id, ReplyTexts.add_failed)

(* lines 101-115 of cmd_allow with whitelist_add's result r *)
allow_added(ctx, target, st, env, r) ==
    LET st1 == [st EXCEPT !.ids = r.ids, !.fs = r.fs]
    IN  IF r.rc = 1 THEN push_reply(st1, env, ctx.sender_id, ctx.chat_id, ReplyTexts.already)
        ELSE IF r.rc = 0
        THEN push_reply(push_reply(st1, env, ctx.sender_id, ctx.chat_id, AddedReply(target)),
                        env, target, target, ReplyTexts.welcome)
        ELSE push_reply(st1, env, ctx.sender_id, ctx.chat_id, ReplyTexts.add_failed)

allow_target(ctx, args, st, env, t) ==
    IF invalid_target(args, t)
    THEN push_reply(st, env, ctx.sender_id, ctx.chat_id, ReplyTexts.invalid_id)
    ELSE CHOOSE res \in {allow_added(ctx, t.value, st, env, r) :
                           r \in {whitelist_add(st.ids, st.fs, t.value, env.fail_at)}} : TRUE

cmd_allow(ctx, args, st, env) ==
    IF permission_denied(ctx)
    THEN push_reply(st, env, ctx.sender_id, ctx.chat_id, ReplyTexts.denied)
    ELSE IF args = <<>>
    THEN push_reply(st, env, ctx.sender_id, ctx.chat_id, ReplyTexts.allow_usage)
    ELSE CHOOSE res \in {allow_target(ctx, args, st, env, t) : t \in {strtoll(args)}} : TRUE

(* lines 138-147 of cmd_revoke with whitelist_remove's result r *)
revoke_removed(ctx, target, st, env, r) ==
    LET st1 == [st EXCEPT !.ids = r.ids, !.fs = r.fs]
    IN  IF r.rc = 1 THEN push_reply(st1, env, ctx.sender_id, ctx.chat_id, ReplyTexts.not_listed)
        ELSE IF r.rc = 0
        THEN push_reply(st1, env, ctx.sender_id, ctx.chat_id, RemovedReply(target))
        ELSE push_reply(st1, env, ctx.sender_id, ctx.chat_id, ReplyTexts.remove_failed)

revoke_target(ctx, args, st, env, t) ==
    IF invalid_target(args, t)
    THEN push_reply(st, env, ctx.sender_id, ctx.chat_id, ReplyTexts.invalid_id)
    ELSE CHOOSE res \in {revoke_removed(ctx, t.value, st, env, r) :
                           r \in {whitelist_remove(st.ids, st.fs, t.value, env.fail_at)}} : TRUE

cmd_revoke(ctx, args, st, env) ==
    IF permission_denied(ctx)
    THEN push_reply(st, env, ctx.sender_id, ctx.chat_id, ReplyTexts.denied)
    ELSE IF args = <<>>
    THEN push_reply(st, env, ctx.sender_id, ctx.chat_id, ReplyTexts.revoke_usage)
    ELSE CHOOSE res \in {revoke_target(ctx, args, st, env, t) : t \in {strtoll(args)}} : TRUE

cmd_status(ctx, st, env) ==
    IF permission_denied(ctx)
    THEN push_reply(st, env, ctx.sender_id, ctx.chat_id, ReplyTexts.denied)
    ELSE LET uptime == env.clock - ctx.boot_time
         IN  push_reply(st, env, ctx.sender_id, ctx.chat_id,
                        StatusReply(uptime \div 3600, (uptime % 3600) \div 60, uptime % 60,
                                    queue_depth(st.q), whitelist_count(st.ids),
                                    ctx.worker_count))

(* the command names of cmd_table, in its order *)
cmd_table ==
    <<[name |-> <<"a", "l", "l", "o", "w">>, arg_type |-> "CMD_HASARG"],
      [name |-> <<"h", "e", "l", "p">>, arg_type |-> "CMD_NOARG"],
      [name |-> <<"r", "e", "v", "o", "k", "e">>, arg_type |-> "CMD_HASARG"],
      [name |-> <<"s", "t", "a", "r", "t">>, arg_type |-> "CMD_NOARG"],
      [name |-> <<"s", "t", "a", "t", "u", "s">>, arg_type |-> "CMD_NOARG"]>>

(* cmd_lookup: binary search of cmd_table[lo..hi] (indices from 0), the index of
   the entry found or -1 for NULL *)
RECURSIVE cmd_lookup_from(_, _, _)
cmd_lookup_mid(name, lo, hi, mid, cmp) ==
    IF cmp < 0 THEN cmd_lookup_from(name, lo, mid - 1)
    ELSE IF cmp > 0 THEN cmd_lookup_from(name, mid + 1, hi)
    ELSE mid

cmd_lookup_from(name, lo, hi) ==
    IF lo > hi THEN 0 - 1
    ELSE CHOOSE r \in {cmd_lookup_mid(name, lo, hi, mid, strcmp(name, cmd_table[mid + 1].name)) :
                         mid \in {lo + (hi - lo) \div 2}} : TRUE

(* a lookup that takes an unknown name for the first entry of the table *)
cmd_lookup_or_first(name) ==
    IF cmd_lookup_from(name, 0, Len(cmd_table) - 1) < 0 THEN 0
    ELSE cmd_lookup_from(name, 0, Len(cmd_table) - 1)

cmd_lookup(name) == cmd_lookup_from(name, 0, Len(cmd_table) - 1)

(* entry->fn_arg(ctx, args) or entry->fn_noarg(ctx) *)
cmd_call(entry, ctx, args, st, env) ==
    IF entry = 0 THEN cmd_allow(ctx, args, st, env)
    ELSE IF entry = 1 THEN cmd_help(ctx, st, env)
    ELSE IF entry = 2 THEN cmd_revoke(ctx, args, st, env)
    ELSE IF entry = 3 THEN cmd_start(ctx, st, env)
    ELSE cmd_status(ctx, st, env)

cmd_found(ctx, p, st, env, entry) ==
    IF entry < 0 THEN [rc |-> 0, st |-> st]
    ELSE [rc |-> 1, st |-> cmd_call(entry, ctx, p.args, st, env)]

cmd_parsed(ctx, st, env, p) ==
    IF ~p.ok THEN [rc |-> 0, st |-> st]
    ELSE CHOOSE res \in {cmd_found(ctx, p, st, env, entry) : entry \in {cmd_lookup(p.cmd)}} : TRUE

(* cmd_dispatch: 1 and the handler's effect for a known command, else 0 *)
cmd_dispatch(ctx, text, st, env) ==
    IF text = <<>> \/ text[1] # "/" THEN [rc |-> 0, st |-> st]
    ELSE CHOOSE res \in {cmd_parsed(ctx, st, env, p) :
                           p \in {parse_command(text, CMD_BUF_SIZE, ctx.bot_username)}} : TRUE

(* ---------------------------------------------------------------------- *)
(* Command dispatch in use: updates from an admin and from another sender  *)
(* ---------------------------------------------------------------------- *)
MaxCmds == 2

(* the senders of commands; AdminIds holds the configured admin ids *)
CmdSenders == {3, 4}

AdminIds == {0, 3}

BotUsername == <<"t", "g", "b", "o", "t">>

(* the texts of the updates *)
CmdTexts ==
    {<<"/", "a", "l", "l", "o", "w", " ", "5">>,
     <<"/", "r", "e", "v", "o", "k", "e", " ", "5">>,
     <<"/", "s", "t", "a", "t", "u", "s">>,
     <<"/", "s", "t", "a", "r", "t">>,
     <<"/", "h", "e", "l", "p">>,
     <<"/", "a", "l", "l", "o", "w">>,
     <<"/", "r", "e", "v", "o", "k", "e", " ", "x">>,
     <<"/", "a", "l", "l", "o", "w", " ", "0">>,
     <<"/", "s", "t", "a", "t", "u", "s", "@", "T", "g", "B", "o", "t">>,
     <<"/", "a", "l", "l", "o", "w", "@", "o", "t", "h", "e", "r", " ", "5">>,
     <<"/", "n", "o", "p", "e">>,
     <<"h", "e", "l", "l", "o">>,
     <<"/">>}

CmdCtx(sender_id) ==
    [admin_user_id |-> admin_user_id, sender_id |-> sender_id, chat_id |-> sender_id,
     bot_username |-> BotUsername, boot_time |-> 0, worker_count |-> Cardinality(Threads)]

(* the queue after sender_id has sent /start k times to an idle bot *)
RECURSIVE Started(_, _, _)
Started(q, sender_id, k) ==
    IF k = 0 THEN q
    ELSE Started(queue_push(q, sender_id, sender_id, ReplyTexts.start, 0, TRUE).q, sender_id, k - 1)

(* the access-list files found at start-up *)
CmdFiles == {[exists |-> TRUE, lines |-> <<>>], [exists |-> TRUE, lines |-> <<<<"5">>>>]}

InitCmd ==
    /\ \E rs \in RingSizeArgs, s \in CmdSenders :
         \E k \in {0, round_up_pow2(rs) - 1} : g_queue = Started(queue_init(rs), s, k)
    /\ now = 0
    /\ pc = [t \in Threads |-> "call"]
    /\ out = [t \in Threads |-> NoMsg]
    /\ g_running = 1
    /\ main_pc = "loop"
    /\ reply_delay = 0
    /\ attempts = [s \in Senders |-> 0]
    /\ push_rc = 99
    /\ pushed = [s \in Senders |-> <<>>]
    /\ popped = [s \in Senders |-> <<>>]
    /\ last_user = 0
    /\ wl_file \in CmdFiles
    /\ wl_ids = whitelist_load(wl_file, TRUE).ids
    /\ wl_tmp = NoFile
    /\ wl_pc = "idle"
    /\ wl_rc = 0
    /\ wl_call = [op |-> "load", id |-> 0, n |-> 0, before |-> <<>>, text |-> <<>>,
                  alloc_ok |-> TRUE]
    /\ wl_saved = [init |-> wl_file, ids |-> <<>>, done |-> FALSE]
    /\ admin_user_id \in AdminIds
    /\ cmd_rc = 99
    /\ ExtUnset

(* the outcomes of whitelist_save that a handler can tell apart: it succeeds, or it
   fails; whichever step fails, the file is as before and the temporary file gone *)
CmdSaveFailures == {"none", "rename"}

(* handle_update calls cmd_dispatch for sender_id's text *)
CmdDispatch(sender_id, text) ==
    /\ wl_call.n < MaxCmds
    /\ \E fail_at \in CmdSaveFailures, alloc_ok \in BOOLEAN :
         \E res \in {cmd_dispatch(CmdCtx(sender_id), text,
                                  [q |-> g_queue, ids |-> wl_ids,
                                   fs |-> [file |-> wl_file, tmp |-> wl_tmp]],
                                  [clock |-> now, alloc_ok |-> alloc_ok, fail_at |-> fail_at])} :
             /\ cmd_rc' = res.rc
             /\ g_queue' = res.st.q
             /\ wl_ids' = res.st.ids
             /\ wl_file' = res.st.fs.file
             /\ wl_tmp' = res.st.fs.tmp
             /\ wl_call' = [op |-> "cmd", id |-> sender_id, n |-> wl_call.n + 1,
                            before |-> wl_ids, text |-> text, alloc_ok |-> alloc_ok]
    /\ UNCHANGED <<now, pc, out, g_running, main_pc, reply_delay, attempts, push_rc,
                   pushed, popped, last_user, wl_pc, wl_rc, wl_saved, admin_user_id, extv>>

NextCmd == \E s \in CmdSenders, text \in CmdTexts : CmdDispatch(s, text)

SpecCmd == InitCmd /\ [][NextCmd]_vars

(* ---------------------------------------------------------------------- *)
(* Claims about command dispatch                                           *)
(* ---------------------------------------------------------------------- *)
(* the command name cmd_dispatch finds in text, <<>> if none *)
C15_Command(text) == parse_command(text, CMD_BUF_SIZE, BotUsername).cmd

C15_Mutating == {cmd_table[1].name, cmd_table[3].name}

C15_AdminOnly == C15_Mutating \cup {cmd_table[5].name}

(* the number of texts queued for sender s in q *)
C15_Queued(q, s) == IF HasRing(q, s) THEN RingOf(q, s).count ELSE 0

(* q2 is q with reply appended to the ring of sender s *)
C15_Enqueued(q, q2, s, reply) ==
    /\ C15_Queued(q2, s) = C15_Queued(q, s) + 1
    /\ RingSlots(RingOf(q2, s))[C15_Queued(q2, s)].text = reply
    /\ q2.total_pending = q.total_pending + 1

(* this step is a cmd_dispatch of a command that asks for the admin (allow,
   revoke or status), sent by someone else or with no admin configured *)
C15_DeniedStep ==
    /\ wl_call'.n = wl_call.n + 1
    /\ C15_Command(wl_call'.text) \in C15_AdminOnly
    /\ (admin_user_id = 0 \/ wl_call'.id # admin_user_id)

(* this step is a cmd_dispatch and changes the access list only if the command
   is allow or revoke, the admin id is not 0 and the sender is the admin *)
C15_MutationByAdminOnly ==
    (wl_call'.n = wl_call.n + 1 /\ wl_ids' # wl_ids) =>
        /\ C15_Command(wl_call'.text) \in C15_Mutating
        /\ admin_user_id # 0
        /\ wl_call'.id = admin_user_id

(* the statement of C15 as given: every denied command is answered with an
   enqueued 'permission denied' reply *)
C15_DeniedAlwaysEnqueued ==
    [][/\ C15_MutationByAdminOnly
       /\ C15_DeniedStep =>
            /\ wl_ids' = wl_ids
            /\ cmd_rc' = 1
            /\ C15_Enqueued(g_queue, g_queue', wl_call'.id, ReplyTexts.denied)]_vars

(* C15: command dispatch changes the access list only when the command is allow or
   revoke, the configured admin id is non-zero and the sender id equals it; allow,
   revoke or status from any other sender (or with admin id 0) leaves the access
   list unchanged, cmd_dispatch returns 1, and the 'permission denied' reply is
   enqueued for the sender unless queue_push rejects it (the sender's ring is full,
   or the sender has no ring and none can be allocated), in which case the queue is
   unchanged and the reply is lost *)
C15_AdminOnlyMutation ==
    [][/\ C15_MutationByAdminOnly
       /\ C15_DeniedStep =>
            /\ wl_ids' = wl_ids
            /\ cmd_rc' = 1
            /\ \/ C15_Enqueued(g_queue, g_queue', wl_call'.id, ReplyTexts.denied)
               \/ /\ g_queue' = g_queue
                  /\ \/ ~HasRing(g_queue, wl_call'.id)
                     \/ ring_full(RingOf(g_queue, wl_call'.id))]_vars

(* someone who is not the configured admin has sent /allow 5: the list is as it
   was, cmd_dispatch has returned 1 and the newest text queued for the sender is
   the 'permission denied' reply *)
C15_Witness ==
    /\ wl_call.op = "cmd"
    /\ C15_Command(wl_call.text) = cmd_table[1].name
    /\ admin_user_id # 0
    /\ wl_call.id # admin_user_id
    /\ wl_ids = wl_call.before
    /\ cmd_rc = 1
    /\ HasRing(g_queue, wl_call.id)
    /\ C15_Queued(g_queue, wl_call.id) > 0
    /\ RingSlots(RingOf(g_queue, wl_call.id))[C15_Queued(g_queue, wl_call.id)].text = ReplyTexts.denied

(* ====================================================================== *)
(* The webhook server: the body buffer pool and on_request                 *)
(* ====================================================================== *)

RESPONSE_BUF_MAX == 524288

PB_POOL_MAX == 64

(* a PostBody after calloc: no data, nothing accumulated *)
NoBody == [data |-> FALSE, len |-> 0, cap |-> 0]

(* a request context that holds no PostBody (req_cls points to NULL) *)
NoPb == [kind |-> "null", idx |-> 0, body |-> NoBody]

pool_size_clamped(pool_size) ==
    IF pool_size < 1 THEN 8 ELSE IF pool_size > PB_POOL_MAX THEN PB_POOL_MAX ELSE pool_size

(* pb_pool_init: pool_size slots, all of them on the free stack *)
pb_pool_init(pool_size) ==
    LET n == pool_size_clamped(pool_size)
    IN  [pool |-> [i \in 0 .. n - 1 |-> NoBody],
         free_stack |-> [i \in 0 .. n - 1 |-> i],
         free_top |-> n,
         pool_size |-> n]

acquire_keep_top(p) == p.free_top

acquire_top(p) == p.free_top - 1

(* pb_acquire: the slot on top of the free stack, with its length reset, or a heap
   PostBody when the stack is empty; NULL when that calloc fails *)
pb_acquire(p, alloc_ok) ==
    IF p.free_top > 0
    THEN LET idx == p.free_stack[p.free_top - 1]
         IN  [p |-> [p EXCEPT !.free_top = acquire_top(p), !.pool[idx].len = 0],
              pb |-> [kind |-> "slot", idx |-> idx, body |-> NoBody]]
    ELSE [p |-> p, pb |-> IF alloc_ok THEN [kind |-> "heap", idx |-> 0, body |-> NoBody]
                          ELSE NoPb]

(* pb_release: a pool slot goes back on the free stack with its length reset and its
   data kept; a heap PostBody is freed *)
pb_release(p, pb) ==
    IF pb.kind = "slot" /\ pb.idx \in 0 .. p.pool_size - 1
    THEN [p EXCEPT !.pool[pb.idx].len = 0,
                   !.free_stack[p.free_top] = pb.idx,
                   !.free_top = p.free_top + 1]
    ELSE p

(* the PostBody behind a request context *)
body_of(p, pb) == IF pb.kind = "slot" THEN p.pool[pb.idx] ELSE pb.body

RECURSIVE grow_cap(_, _)
grow_cap(new_cap, need) == IF new_cap < need THEN grow_cap(new_cap * 2, need) ELSE new_cap

upload_need(b, size) == b.len + size + 1

(* on_request with upload data: size more bytes are appended to the PostBody, which
   grows by doubling; a body that would not fit RESPONSE_BUF_MAX with its closing
   NUL is marked by len = RESPONSE_BUF_MAX + 1, and bytes that find no memory are
   dropped *)
on_request_upload(b, size, realloc_ok) ==
    LET need == upload_need(b, size)
    IN  IF need > RESPONSE_BUF_MAX THEN [b EXCEPT !.len = RESPONSE_BUF_MAX + 1]
        ELSE IF need > b.cap
        THEN IF realloc_ok
             THEN [data |-> TRUE,
                   len |-> b.len + size,
                   cap |-> grow_cap(IF b.cap = 0 THEN 4096 ELSE b.cap * 2, need)]
             ELSE b
        ELSE [b EXCEPT !.len = b.len + size]

(* a header that the request does not carry *)
NoHeader == [has |-> FALSE, val |-> <<>>]

Header(val) == [has |-> TRUE, val |-> val]

CharAt(s, i) == IF i <= Len(s) THEN s[i] ELSE "NUL"

(* ct_strcmp: 0 when a and b are equal, compared without an early exit *)
ct_strcmp(a, b) ==
    LET maxlen == IF Len(a) > Len(b) THEN Len(a) ELSE Len(b)
    IN  IF (Len(a) % 256) # (Len(b) % 256) \/ \E i \in 1 .. maxlen : CharAt(a, i) # CharAt(b, i)
        THEN 1 ELSE 0

(* strncasecmp(a, b, n) # 0 *)
strncasecmp_differs(a, b, n) ==
    \E i \in 1 .. n :
        /\ \A j \in 1 .. i - 1 : j <= Len(a) /\ j <= Len(b)
        /\ \/ (i <= Len(a)) # (i <= Len(b))
           \/ i <= Len(a) /\ i <= Len(b) /\ ToLower(a[i]) # ToLower(b[i])

APPLICATION_JSON == <<"a", "p", "p", "l", "i", "c", "a", "t", "i", "o", "n", "/", "j", "s", "o", "n">>

route_ok(conn) == conn.method = "POST" /\ conn.url = "/webhook"

secret_ok(conn, secret) ==
    secret = <<>> \/ (conn.secret.has /\ ct_strcmp(conn.secret.val, secret) = 0)

content_type_ok(conn) ==
    conn.content_type.has /\ ~strncasecmp_differs(conn.content_type.val, APPLICATION_JSON, 16)

status_secret_first(conn, secret, b) ==
    IF ~secret_ok(conn, secret) THEN 403
    ELSE IF ~route_ok(conn) THEN 404
    ELSE IF ~content_type_ok(conn) THEN 415
    ELSE IF b.len > RESPONSE_BUF_MAX THEN 413
    ELSE 200

(* on_request, last call: the status of the response *)
request_status(conn, secret, b) ==
    IF ~route_ok(conn) THEN 404
    ELSE IF ~secret_ok(conn, secret) THEN 403
    ELSE IF ~content_type_ok(conn) THEN 415
    ELSE IF b.len > RESPONSE_BUF_MAX THEN 413
    ELSE 200

update_calls_any_status(status, b, parses, update_cb) ==
    IF b.data /\ b.len > 0 /\ parses /\ update_cb THEN 1 ELSE 0

(* on_request, last call: how many times update_cb is called; parses tells whether
   cJSON_Parse accepts the accumulated bytes *)
update_calls(status, b, parses, update_cb) ==
    IF status = 200 /\ b.data /\ b.len > 0 /\ parses /\ update_cb THEN 1 ELSE 0

(* ---------------------------------------------------------------------- *)
(* Requests served by the MHD thread pool                                  *)
(* ---------------------------------------------------------------------- *)

MaxRequests == 3

MaxChunks == 2

(* the connections that can be open at once *)
Requests == {"c1", "c2", "c3"}

(* a client that sends one request after the other on one connection *)
Serial == {"c1"}

(* cfg->webhook_pool_size *)
PoolSizeArgs == {1, 2}

(* cfg->webhook_secret *)
Secrets == {<<>>, <<"s", "3">>}

SecretHeaders == {NoHeader, Header(<<"s", "3">>), Header(<<"s", "4">>)}

ContentTypes ==
    {NoHeader, Header(APPLICATION_JSON), Header(<<"A", "p", "p", "l", "i", "c", "a", "t", "i", "o", "n", "/", "J", "S", "O", "N", ";", " ", "c", "h", "a", "r", "s", "e", "t", "=", "u", "t", "f", "-", "8">>), Header(<<"t", "e", "x", "t", "/", "p", "l", "a", "i", "n">>)}

Routes == {[method |-> "POST", url |-> "/webhook"], [method |-> "GET", url |-> "/webhook"],
           [method |-> "POST", url |-> "/other"]}

Conns == {[method |-> rt.method, url |-> rt.url, secret |-> h, content_type |-> ct] :
              rt \in Routes, h \in SecretHeaders, ct \in ContentTypes}

(* the sizes of the pieces in which MHD hands over a body *)
ChunkSizes == {1, RESPONSE_BUF_MAX - 1}

ReqIdle == [pc |-> "idle", pb |-> NoPb, sent |-> 0, chunks |-> 0]

NoResponse ==
    [by |-> "none", conn |-> [method |-> "", url |-> "", secret |-> NoHeader,
                              content_type |-> NoHeader],
     sent |-> 0, len |-> 0, parses |-> FALSE, status |-> 0, calls |-> 0]

(* the queue after queue_init, with nothing pushed or popped *)
QueueFreshWith(rd) ==
    /\ \E rs \in RingSizeArgs : g_queue = queue_init(rs)
    /\ now = 0
    /\ pc = [t \in Threads |-> "call"]
    /\ out = [t \in Threads |-> NoMsg]
    /\ g_running = 1
    /\ main_pc = "loop"
    /\ reply_delay = rd
    /\ attempts = [s \in Senders |-> 0]
    /\ push_rc = 99
    /\ pushed = [s \in Senders |-> <<>>]
    /\ popped = [s \in Senders |-> <<>>]
    /\ last_user = 0

QueueFresh == QueueFreshWith(0)

(* webhook_start: the pool is set up and the secret copied; main has set update_cb.
   req is the state of each connection, accepted the number of requests taken so
   far, and last the response that the step just taken sent, if it sent one: who
   asked (by), what the request said (conn), the bytes of its body (sent), the
   length that on_request had accumulated (len), whether the accumulated bytes
   parse, the status and the number of calls of update_cb; heap_out counts the heap
   PostBodys that pb_acquire has allocated and pb_release has not freed *)
InitHook ==
    /\ QueueFresh
    /\ MoreUnset
    /\ WlUnloaded
    /\ home_group_id = 0
    /\ logger = [g_initialised |-> 0]
    /\ \E ps \in PoolSizeArgs, secret \in Secrets :
         webhook = [running |-> TRUE, secret |-> secret, update_cb |-> TRUE,
                    pb_pool |-> pb_pool_init(ps),
                    req |-> [r \in Requests |-> ReqIdle],
                    last |-> NoResponse, accepted |-> 0, heap_out |-> 0]

(* on_request, first call for a request: a PostBody is acquired; the connection is
   refused (MHD_NO) when there is none *)
HookFirst(r) ==
    /\ webhook.req[r].pc = "idle"
    /\ webhook.accepted < MaxRequests
    /\ \E alloc_ok \in AllocOutcomes :
         \E res \in {pb_acquire(webhook.pb_pool, alloc_ok)} :
             webhook' = [webhook EXCEPT
                 !.pb_pool = res.p,
                 !.last = NoResponse,
                 !.accepted = webhook.accepted + 1,
                 !.heap_out = IF res.pb.kind = "heap" THEN @ + 1 ELSE @,
                 !.req[r] = IF res.pb.kind = "null" THEN ReqIdle
                            ELSE [pc |-> "recv", pb |-> res.pb, sent |-> 0, chunks |-> 0]]
    /\ UNCHANGED <<queuev, wlv, home_group_id, logger, morev>>

(* on_request with upload data of size bytes *)
HookUpload(r, size) ==
    /\ webhook.req[r].pc = "recv"
    /\ webhook.req[r].chunks < MaxChunks
    /\ \E realloc_ok \in AllocOutcomes :
         \E pb \in {webhook.req[r].pb} :
         \E b \in {on_request_upload(body_of(webhook.pb_pool, pb), size, realloc_ok)} :
             webhook' = [webhook EXCEPT
                 !.pb_pool.pool = IF pb.kind = "slot" THEN [@ EXCEPT ![pb.idx] = b] ELSE @,
                 !.req[r].pb.body = IF pb.kind = "heap" THEN b ELSE @,
                 !.last = NoResponse,
                 !.req[r].sent = @ + size,
                 !.req[r].chunks = @ + 1]
    /\ UNCHANGED <<queuev, wlv, home_group_id, logger, morev>>

(* on_request, last call: the checks, the parse and the callback, the response, and
   the PostBody released; conn is what the request line and the headers say, parses
   whether cJSON_Parse accepts the accumulated bytes *)
HookFinal(r, conn, parses) ==
    /\ webhook.req[r].pc = "recv"
    /\ \E pb \in {webhook.req[r].pb} :
       \E b \in {body_of(webhook.pb_pool, pb)} :
       \E status \in {request_status(conn, webhook.secret, b)} :
           webhook' = [webhook EXCEPT
               !.pb_pool = pb_release(webhook.pb_pool, pb),
               !.heap_out = IF pb.kind = "heap" THEN @ - 1 ELSE @,
               !.req[r] = ReqIdle,
               !.last = [by |-> r, conn |-> conn, sent |-> webhook.req[r].sent,
                         len |-> b.len, parses |-> parses, status |-> status,
                         calls |-> update_calls(status, b, parses, webhook.update_cb)]]
    /\ UNCHANGED <<queuev, wlv, home_group_id, logger, morev>>

(* the client goes away before the request is complete: on_request is not called
   again for it, and nothing else releases its PostBody *)
HookAbort(r) ==
    /\ webhook.req[r].pc = "recv"
    /\ webhook' = [webhook EXCEPT !.req[r] = ReqIdle, !.last = NoResponse]
    /\ UNCHANGED <<queuev, wlv, home_group_id, logger, morev>>

NextHook ==
    \/ \E r \in Serial : HookFirst(r)
    \/ \E r \in Serial, size \in ChunkSizes : HookUpload(r, size)
    \/ \E r \in Serial, conn \in Conns, parses \in BOOLEAN : HookFinal(r, conn, parses)
    \/ \E r \in Serial : HookAbort(r)

(* requests of every kind, one at a time; a request that is abandoned keeps its
   PostBody, so that later requests find the pool empty *)
SpecHook == InitHook /\ [][NextHook]_vars

(* the requests that the clients of the concurrent runs send: an update, whose body
   parses if it has one, and a probe *)
PbConns == {[method |-> "POST", url |-> "/webhook", secret |-> Header(<<"s", "3">>),
             content_type |-> Header(APPLICATION_JSON)],
            [method |-> "GET", url |-> "/other", secret |-> NoHeader,
             content_type |-> NoHeader]}

PbChunkSizes == {1}

NextPb ==
    \/ \E r \in Requests : HookFirst(r)
    \/ \E r \in Requests, size \in PbChunkSizes : HookUpload(r, size)
    \/ \E r \in Requests, conn \in PbConns, parses \in {TRUE} : HookFinal(r, conn, parses)
    \/ \E r \in Requests : HookAbort(r)

(* the MHD threads serve up to three requests at once *)
SpecPb == InitHook /\ [][NextPb]_vars

(* ---------------------------------------------------------------------- *)
(* Claims about the webhook server                                         *)
(* ---------------------------------------------------------------------- *)

Responded == webhook.running /\ webhook.last.by # "none"

(* the checks of a request in the words of the documentation *)
PostToWebhook == webhook.last.conn.method = "POST" /\ webhook.last.conn.url = "/webhook"

SecretAccepted ==
    webhook.secret # <<>> =>
        webhook.last.conn.secret.has /\ webhook.last.conn.secret.val = webhook.secret

JsonContentType ==
    LET ct == webhook.last.conn.content_type
    IN  /\ ct.has
        /\ Len(ct.val) >= Len(APPLICATION_JSON)
        /\ \A i \in 1 .. Len(APPLICATION_JSON) : ToLower(ct.val[i]) = APPLICATION_JSON[i]

(* the accumulation has marked the body as too large *)
MarkedOversized == webhook.last.len > RESPONSE_BUF_MAX

(* C21: the status of a response is decided by the first check that fails, in the
   order: not POST /webhook gives 404; a configured, non-empty secret that the
   header misses or differs from gives 403; a Content-Type that is missing or does
   not start with application/json, ignoring case, gives 415; an oversized body
   gives 413; every other request gets 200, with an empty or unparseable body too *)
C21_FirstFailingCheck ==
    Responded =>
        webhook.last.status =
            IF ~PostToWebhook THEN 404
            ELSE IF ~SecretAccepted THEN 403
            ELSE IF ~JsonContentType THEN 415
            ELSE IF MarkedOversized THEN 413
            ELSE 200

(* a request with a wrong secret, no content type and an oversized body got 403 *)
C21_Witness ==
    /\ Responded
    /\ webhook.last.status = 403
    /\ ~JsonContentType
    /\ MarkedOversized

(* C22: update_cb is called exactly once for a request that passes the path, secret,
   content-type and size checks and has a non-empty body that parses as JSON, and
   not at all for any other request *)
C22_CallbackExactlyOnce ==
    Responded =>
        webhook.last.calls =
            IF /\ PostToWebhook
               /\ SecretAccepted
               /\ JsonContentType
               /\ ~MarkedOversized
               /\ webhook.last.sent > 0
               /\ webhook.last.parses
            THEN 1 ELSE 0

(* a body that came in two pieces and parses was handed to update_cb *)
C22_Witness ==
    /\ Responded
    /\ webhook.last.calls = 1
    /\ webhook.last.sent > 1
    /\ webhook.secret # <<>>

PassesOtherChecks == PostToWebhook /\ SecretAccepted /\ JsonContentType

(* C23: a request that passes the other checks is answered 413 exactly when its
   body, summed over all pieces, is larger than 524288 bytes; a body of at most
   524288 bytes is never rejected for its size *)
C23_SizeCeiling ==
    Responded /\ PassesOtherChecks =>
        (webhook.last.status = 413 <=> webhook.last.sent > 524288)

(* what on_request does: the largest body it accepts has RESPONSE_BUF_MAX - 1 bytes *)
C23_CeilingWithTerminator ==
    Responded /\ PassesOtherChecks =>
        (webhook.last.status = 413 <=> webhook.last.sent > RESPONSE_BUF_MAX - 1)

C23_Rejected524288 ==
    /\ Responded
    /\ PassesOtherChecks
    /\ webhook.last.sent = 524288
    /\ webhook.last.status = 413

InFlight == {r \in Requests : webhook.req[r].pc = "recv"}

HoldsSlot(r, idx) ==
    r \in InFlight /\ webhook.req[r].pb.kind = "slot" /\ webhook.req[r].pb.idx = idx

FreeSlots(p) == {p.free_stack[i] : i \in 0 .. p.free_top - 1}

PoolExclusive ==
    LET p == webhook.pb_pool
    IN  /\ 0 <= p.free_top /\ p.free_top <= p.pool_size
        /\ \A r1, r2 \in InFlight :
               /\ webhook.req[r1].pb.kind = "slot"
               /\ webhook.req[r2].pb.kind = "slot"
               /\ webhook.req[r1].pb.idx = webhook.req[r2].pb.idx
               => r1 = r2
        /\ \A r \in InFlight : webhook.req[r].pb.kind = "slot" =>
               /\ webhook.req[r].pb.idx \in 0 .. p.pool_size - 1
               /\ webhook.req[r].pb.idx \notin FreeSlots(p)
        /\ \A i, j \in 0 .. p.free_top - 1 : p.free_stack[i] = p.free_stack[j] => i = j

HeapWhenEmpty ==
    \A r \in Requests :
        /\ webhook.req[r].pc = "idle"
        /\ webhook'.req[r].pc = "recv"
        /\ webhook.pb_pool.free_top = 0
        => webhook'.req[r].pb.kind = "heap"

(* C25: under any interleaving of concurrent requests a pool slot is held by at most
   one request in flight, it is never on the free stack while it is held nor twice
   on it, 0 <= free_top <= pool_size, and a request that arrives when no slot is
   free gets a heap buffer instead of a slot *)
C25_BufferPoolExclusive ==
    PoolExclusive /\ [][PoolExclusive' /\ HeapWhenEmpty]_vars

(* both slots of a pool of two are held and a third request has a heap buffer *)
C25_Witness ==
    /\ webhook.running
    /\ webhook.pb_pool.pool_size = 2
    /\ \E r1, r2, r3 \in InFlight :
           /\ HoldsSlot(r1, 0)
           /\ HoldsSlot(r2, 1)
           /\ webhook.req[r3].pb.kind = "heap"

(* ---------------------------------------------------------------------- *)
(* Claims about /allow and about what cmd_dispatch returns                 *)
(* ---------------------------------------------------------------------- *)

(* q2 is q with reply appended to the texts queued for sender s *)
Appended(q, q2, s, reply) ==
    /\ C15_Queued(q2, s) = C15_Queued(q, s) + 1
    /\ RingSlots(RingOf(q2, s))[C15_Queued(q2, s)].text = reply

(* queue_push had to reject a text for sender s in q, whose ring is full or missing
   with none to be had from calloc, and q2 has as many texts for s *)
Rejected(q, q2, s, alloc_ok) ==
    /\ C15_Queued(q2, s) = C15_Queued(q, s)
    /\ IF HasRing(q, s) THEN ring_full(RingOf(q, s)) ELSE ~alloc_ok

(* this step is a cmd_dispatch of /allow, sent by the configured admin, after which
   the access list holds an id that it did not hold before *)
C29_AllowStep ==
    /\ wl_call'.n = wl_call.n + 1
    /\ wl_call'.op = "cmd"
    /\ C15_Command(wl_call'.text) = cmd_table[1].name
    /\ admin_user_id # 0
    /\ wl_call'.id = admin_user_id
    /\ IdSet(wl_ids') \ IdSet(wl_ids) # {}

C29_Target == CHOOSE t \in IdSet(wl_ids') \ IdSet(wl_ids) : TRUE

(* whitelist_save has written the new list to the file *)
C29_Saved == wl_file'.exists /\ wl_file'.lines = Serialize(wl_ids')

(* the statement of C29 as given: every /allow of the admin that adds an id leaves
   the confirmation queued for the admin and the announcement queued for the target *)
C29_AlwaysBothEnqueued ==
    [][C29_AllowStep =>
         /\ Appended(g_queue, g_queue', wl_call'.id, AddedReply(C29_Target))
         /\ Appended(g_queue, g_queue', C29_Target, ReplyTexts.welcome)
         /\ g_queue'.total_pending = g_queue.total_pending + 2]_vars

(* C29: every /allow <id> from the admin that adds a new id returns 1 and, when
   whitelist_add returns 0 (the list is saved), hands two messages to queue_push,
   first the confirmation keyed by the admin's sender id and chat, then the access
   announcement keyed by the target id; each of them is pending after the command
   returns unless queue_push rejected it (its ring is full, or there is no ring for
   it and none can be allocated). When the save fails the file is as before, the id
   is in the list in memory all the same, and only the failure reply is handed to
   queue_push for the admin *)
C29_AllowHandsOverBoth ==
    [][C29_AllowStep =>
         /\ cmd_rc' = 1
         /\ \/ /\ C29_Saved
               /\ \/ Appended(g_queue, g_queue', wl_call'.id, AddedReply(C29_Target))
                  \/ Rejected(g_queue, g_queue', wl_call'.id, wl_call'.alloc_ok)
               /\ \/ Appended(g_queue, g_queue', C29_Target, ReplyTexts.welcome)
                  \/ Rejected(g_queue, g_queue', C29_Target, wl_call'.alloc_ok)
            \/ /\ wl_file' = wl_file
               /\ \/ Appended(g_queue, g_queue', wl_call'.id, ReplyTexts.add_failed)
                  \/ Rejected(g_queue, g_queue', wl_call'.id, wl_call'.alloc_ok)
               /\ C15_Queued(g_queue', C29_Target) = C15_Queued(g_queue, C29_Target)]_vars

(* the admin has allowed 5: the confirmation is the newest text queued for the admin
   and the announcement the newest queued for 5 *)
C29_Witness ==
    /\ wl_call.op = "cmd"
    /\ C15_Command(wl_call.text) = cmd_table[1].name
    /\ 5 \in IdSet(wl_ids) \ IdSet(wl_call.before)
    /\ Pending(g_queue, wl_call.id)
    /\ RingSlots(RingOf(g_queue, wl_call.id))[C15_Queued(g_queue, wl_call.id)].text = AddedReply(5)
    /\ Pending(g_queue, 5)
    /\ RingSlots(RingOf(g_queue, 5))[C15_Queued(g_queue, 5)].text = ReplyTexts.welcome

CommandNames == {cmd_table[i].name : i \in 1 .. Len(cmd_table)}

(* the name after the slash, up to the first blank or at sign *)
NameIn(text) == SubSeq(text, 2, FirstOf(text, 2, {" ", "@"}) - 1)

HasSuffix(text) ==
    FirstOf(text, 2, {" ", "@"}) <= Len(text) /\ text[FirstOf(text, 2, {" ", "@"})] = "@"

(* what follows the at sign, up to the first blank *)
SuffixIn(text) ==
    SubSeq(text, FirstOf(text, 2, {" ", "@"}) + 1,
           FirstOf(text, FirstOf(text, 2, {" ", "@"}) + 1, {" "}) - 1)

Unhandled(text) ==
    \/ text = <<>>
    \/ text[1] # "/"
    \/ NameIn(text) \notin CommandNames
    \/ HasSuffix(text) /\ ~SameIgnoringCase(SuffixIn(text), BotUsername)

(* C30: cmd_dispatch returns 0 and neither pushes to the queue nor changes the access
   list when the text does not start with a slash, when the command name is not one
   of start, help, allow, revoke, status, or when it carries an @name suffix that
   differs from the bot's username ignoring case; in every other case it returns 1 *)
C30_DispatchResult ==
    [][wl_call'.n = wl_call.n + 1 /\ wl_call'.op = "cmd" =>
         IF Unhandled(wl_call'.text)
         THEN cmd_rc' = 0 /\ UNCHANGED <<g_queue, wl_ids, wl_file, wl_tmp>>
         ELSE cmd_rc' = 1]_vars

(* the admin has sent /allow@other 5 and nothing happened *)
C30_Witness ==
    /\ wl_call.op = "cmd"
    /\ cmd_rc = 0
    /\ HasSuffix(wl_call.text)
    /\ NameIn(wl_call.text) = cmd_table[1].name
    /\ admin_user_id # 0
    /\ wl_call.id = admin_user_id
    /\ wl_ids = wl_call.before

(* ====================================================================== *)
(* main.c: handle_update                                                   *)
(* ====================================================================== *)

(* a JSON member that is a number, and one that is missing or of another type *)
JNum(v) == [num |-> TRUE, val |-> v]

NoNum == [num |-> FALSE, val |-> 0]

JStr(val) == [str |-> TRUE, val |-> val]

NoStr == [str |-> FALSE, val |-> <<>>]

(* the text of a user's message as queue_push gets it *)
UserText(text) ==
    [id |-> [fmt |-> "%s", args |-> [i \in 1 .. Len(text) |-> CharCode(text[i])]],
     len |-> Len(text)]

UnknownCommandReply == Reply("Unknown command. Try /help", <<>>, 26)

(* lines 164-173 of handle_update: a message from a group or supergroup other than
   the home group is ignored *)
foreign_group(u, home) ==
    LET type_str == IF u.chat_type.str THEN u.chat_type.val ELSE <<"p", "r", "i", "v", "a", "t", "e">>
    IN  /\ home # 0
        /\ type_str # <<>>
        /\ type_str[1] \in {"g", "s"}
        /\ u.chat_id.val # home

(* a gate that lets every sender pass *)
not_whitelisted_never(ids, from_id) == FALSE

(* the access gate of handle_update *)
not_whitelisted(ids, from_id) == ~whitelist_contains(ids, from_id)

(* what handle_update has not done yet when it returns *)
Returned(rc, st) == [rc |-> rc, st |-> st, forward |-> FALSE]

(* lines 182-199 of handle_update: a text that starts with a slash *)
update_command(u, ctx, text, st, env) ==
    CHOOSE r \in {IF res.rc # 0 THEN Returned(u.update_id.val, res.st)
                  ELSE Returned(u.update_id.val,
                                push_reply(res.st, env, u.from_id.val, u.chat_id.val,
                                           UnknownCommandReply)) :
                    res \in {cmd_dispatch(ctx, text, st, env)}} : TRUE

(* handle_update up to its return (forward FALSE) or up to its call of queue_push for
   the text of a sender that whitelist_contains has found (forward TRUE) *)
handle_update(u, cfg, st, env) ==
    IF ~u.update_id.num THEN Returned(0 - 1, st)
    ELSE IF ~u.message \/ ~u.chat \/ ~u.chat_id.num THEN Returned(u.update_id.val, st)
    ELSE IF foreign_group(u, cfg.home_group_id) THEN Returned(u.update_id.val, st)
    ELSE IF ~u.from_id.num THEN Returned(u.update_id.val, st)
    ELSE LET text == IF u.text.str THEN u.text.val ELSE <<>>
         IN  IF text # <<>> /\ text[1] = "/"
             THEN update_command(u, [admin_user_id |-> cfg.admin_user_id,
                                     sender_id |-> u.from_id.val, chat_id |-> u.chat_id.val,
                                     bot_username |-> cfg.bot_username, boot_time |-> 0,
                                     worker_count |-> cfg.worker_count],
                                 text, st, env)
             ELSE IF not_whitelisted(st.ids, u.from_id.val)
             THEN Returned(u.update_id.val, st)
             ELSE [rc |-> u.update_id.val, st |-> st, forward |-> TRUE]

(* ---------------------------------------------------------------------- *)
(* Updates handled by the webhook threads                                  *)
(* ---------------------------------------------------------------------- *)

MaxHandled == 3

(* the threads that run webhook_on_update *)
Handlers == {"h1", "h2"}

UpdSenders == {3, 4}

UpdTexts == {JStr(<<"h", "e", "l", "l", "o">>), JStr(<<"/", "a", "l", "l", "o", "w", " ", "4">>), JStr(<<"/", "r", "e", "v", "o", "k", "e", " ", "4">>), JStr(<<"/", "n", "o", "p", "e">>), NoStr}

(* cfg->home_group_id: no home group, or group 7 *)
HomeGroups == {0, 7}

Message(from_id, chat_id, chat_type, text) ==
    [update_id |-> JNum(1), message |-> TRUE, chat |-> TRUE, chat_id |-> chat_id,
     chat_type |-> chat_type, from_id |-> from_id, text |-> text]

(* the updates that arrive: private messages, messages in the groups 7 and 8, and
   updates that lack a member *)
Updates ==
    {Message(JNum(s), JNum(s), JStr(<<"p", "r", "i", "v", "a", "t", "e">>), text) : s \in UpdSenders, text \in UpdTexts}
    \cup {Message(JNum(4), JNum(g), type, JStr(<<"h", "e", "l", "l", "o">>)) :
            g \in {7, 8}, type \in {JStr(<<"g", "r", "o", "u", "p">>), JStr(<<"s", "u", "p", "e", "r", "g", "r", "o", "u", "p">>), NoStr}}
    \cup {[Message(JNum(4), JNum(4), NoStr, JStr(<<"h", "e", "l", "l", "o">>)) EXCEPT !.update_id = NoNum],
          [Message(JNum(4), JNum(4), NoStr, JStr(<<"h", "e", "l", "l", "o">>)) EXCEPT !.message = FALSE],
          [Message(JNum(4), JNum(4), NoStr, JStr(<<"h", "e", "l", "l", "o">>)) EXCEPT !.chat = FALSE],
          Message(JNum(4), NoNum, NoStr, JStr(<<"h", "e", "l", "l", "o">>)),
          Message(NoNum, JNum(4), NoStr, JStr(<<"h", "e", "l", "l", "o">>))}

(* a handler thread between two updates *)
HandlerIdle == [pc |-> "idle", from_id |-> 0, chat_id |-> 0, text |-> <<>>, checked |-> <<>>]

(* the access-list files found at start-up: empty, or listing sender 4 *)
UpdFiles == {[exists |-> TRUE, lines |-> <<>>], [exists |-> TRUE, lines |-> <<<<"4">>>>]}

(* main after whitelist_load and webhook_start, with sender 3 as the admin; upd is
   what each handler thread is doing *)
InitUpd ==
    /\ QueueFresh
    /\ MoreUnset
    /\ wl_file \in UpdFiles
    /\ wl_ids = whitelist_load(wl_file, TRUE).ids
    /\ wl_tmp = NoFile
    /\ wl_pc = "idle"
    /\ wl_rc = 0
    /\ wl_call = [op |-> "load", id |-> 0, n |-> 0, before |-> <<>>, text |-> <<>>,
                  alloc_ok |-> TRUE]
    /\ wl_saved = [init |-> wl_file, ids |-> <<>>, done |-> FALSE]
    /\ admin_user_id = 3
    /\ cmd_rc = 99
    /\ home_group_id \in HomeGroups
    /\ webhook = [running |-> TRUE, upd |-> [h \in Handlers |-> HandlerIdle]]
    /\ logger = [g_initialised |-> 0]

(* webhook_on_update: handler h runs handle_update for u up to its return or up to
   its call of queue_push; checked is the access list that the gate looked at *)
UpdHandle(h, u) ==
    /\ webhook.upd[h].pc = "idle"
    /\ wl_call.n < MaxHandled
    /\ \E fail_at \in CmdSaveFailures, alloc_ok \in BOOLEAN :
         \E res \in {handle_update(u, [admin_user_id |-> admin_user_id,
                                       home_group_id |-> home_group_id,
                                       bot_username |-> BotUsername,
                                       worker_count |-> Cardinality(Threads)],
                                   [q |-> g_queue, ids |-> wl_ids,
                                    fs |-> [file |-> wl_file, tmp |-> wl_tmp]],
                                   [clock |-> now, alloc_ok |-> alloc_ok, fail_at |-> fail_at])} :
             /\ cmd_rc' = res.rc
             /\ g_queue' = res.st.q
             /\ wl_ids' = res.st.ids
             /\ wl_file' = res.st.fs.file
             /\ wl_tmp' = res.st.fs.tmp
             /\ wl_call' = [op |-> "upd", id |-> u.from_id.val, n |-> wl_call.n + 1,
                            before |-> wl_ids, text |-> u.text.val, alloc_ok |-> alloc_ok]
             /\ webhook' = [webhook EXCEPT !.upd[h] =
                              IF res.forward
                              THEN [pc |-> "push", from_id |-> u.from_id.val,
                                    chat_id |-> u.chat_id.val, text |-> u.text.val,
                                    checked |-> wl_ids]
                              ELSE HandlerIdle]
    /\ UNCHANGED <<now, pc, out, g_running, main_pc, reply_delay, attempts, push_rc,
                   pushed, popped, last_user, wl_pc, wl_rc, wl_saved, admin_user_id,
                   home_group_id, logger, morev>>

(* line 217 of handle_update: queue_push of the user's text, its failure only logged *)
UpdPush(h) ==
    /\ webhook.upd[h].pc = "push"
    /\ \E alloc_ok \in BOOLEAN :
         \E res \in {queue_push(g_queue, webhook.upd[h].from_id, webhook.upd[h].chat_id,
                                UserText(webhook.upd[h].text), now, alloc_ok)} :
             g_queue' = res.q
    /\ webhook' = [webhook EXCEPT !.upd[h] = HandlerIdle]
    /\ UNCHANGED <<now, pc, out, g_running, main_pc, reply_delay, attempts, push_rc,
                   pushed, popped, last_user, wlv, home_group_id, logger, morev>>

NextUpd ==
    \/ \E h \in Handlers, u \in Updates : UpdHandle(h, u)
    \/ \E h \in Handlers : UpdPush(h)

SpecUpd == InitUpd /\ [][NextUpd]_vars

(* ---------------------------------------------------------------------- *)
(* Claims about the access gate                                            *)
(* ---------------------------------------------------------------------- *)

(* the newest text queued for sender s in q *)
Newest(q, s) == RingSlots(RingOf(q, s))[C15_Queued(q, s)].text

(* this step has queued a user's text for sender s *)
C24_TextQueued(s) ==
    /\ C15_Queued(g_queue', s) = C15_Queued(g_queue, s) + 1
    /\ Newest(g_queue', s).id.fmt = "%s"

(* C24: handle_update never enqueues the text of a message that is no command (does
   not start with a slash) whose sender is not on the access list at the moment of
   the check: a user's text queued for a sender is the text of a message of that
   sender that a handler has checked against a list holding the sender *)
C24_AccessGate ==
    [][\A s \in Senders : C24_TextQueued(s) =>
         \E h \in Handlers :
             /\ webhook.upd[h].pc = "push"
             /\ webhook.upd[h].from_id = s
             /\ Newest(g_queue', s) = UserText(webhook.upd[h].text)
             /\ (webhook.upd[h].text = <<>> \/ webhook.upd[h].text[1] # "/")
             /\ s \in IdSet(webhook.upd[h].checked)]_vars

(* hello from sender 4 is queued, and 4 has been taken off the list since the check *)
C24_Witness ==
    /\ webhook.running
    /\ Pending(g_queue, 4)
    /\ Newest(g_queue, 4) = UserText(<<"h", "e", "l", "l", "o">>)
    /\ 4 \notin IdSet(wl_ids)

(* ====================================================================== *)
(* logger.c: the circular log file                                         *)
(* ====================================================================== *)
(* The file is the sequence of its bytes. Reads, writes and seeks on the   *)
(* open file are taken to succeed.                                         *)

MARKER == <<"-", "-", "-", "^", "-", "O", "V", "E", "R", "W", "R", "I", "T", "E", "-", "^", "-", "-", "-", "\n">>

MARKER_LEN == 20

LINE_BUF_MAX == 4096

MIN_FILE_CAP == 256

LOG_DEBUG == 0

LOG_INFO == 1

(* what fmt_timestamp and the level tag put before a message: 22 bytes of date and
   time, then the tag padded to five characters in brackets *)
LinePrefix(level) ==
    <<"[", "2", "0", "2", "6", "-", "0", "2", "-", "0", "7", " ", "1", "2", ":", "3", "4", ":", "5", "6", "]", " ">> \o (IF level = LOG_DEBUG THEN <<"[", "D", "E", "B", "U", "G", "]", " ">> ELSE <<"[", "I", "N", "F", "O", " ", "]", " ">>)

Least(S) == CHOOSE i \in S : \A j \in S : i <= j

(* the scan of find_marker from offset p of buf: the marker is looked for at p and
   then after each newline *)
RECURSIVE find_marker_from(_, _)
find_marker_from(buf, p) ==
    IF p > Len(buf) - MARKER_LEN THEN 0 - 1
    ELSE IF SubSeq(buf, p + 1, p + MARKER_LEN) = MARKER THEN p
    ELSE LET nls == {i \in p .. Len(buf) - 1 : buf[i + 1] = "\n"}
         IN  IF nls = {} THEN 0 - 1 ELSE find_marker_from(buf, Least(nls) + 1)

(* find_marker: the offset of the marker, or -1 *)
find_marker(buf) == IF Len(buf) < MARKER_LEN THEN 0 - 1 ELSE find_marker_from(buf, 0)

(* fseek to pos and fwrite of data: the bytes of the file from pos on are replaced,
   and the file grows if the data reaches past its end *)
WriteAt(file, pos, data) ==
    [i \in 1 .. (IF pos + Len(data) > Len(file) THEN pos + Len(data) ELSE Len(file)) |->
        IF pos < i /\ i <= pos + Len(data) THEN data[i - pos]
        ELSE IF i <= Len(file) THEN file[i] ELSE "NUL"]

(* raw_write: data goes to g_write_pos, which moves past it *)
raw_write(lg, data) ==
    IF ~lg.g_fp \/ data = <<>> THEN lg
    ELSE [lg EXCEPT !.file = WriteAt(lg.file, lg.g_write_pos, data),
                    !.g_write_pos = lg.g_write_pos + Len(data)]

(* write_marker: the marker goes to g_write_pos, which stays *)
write_marker(lg) ==
    IF lg.g_overwriting = 0 \/ ~lg.g_fp THEN lg
    ELSE [lg EXCEPT !.file = WriteAt(lg.file, lg.g_write_pos, MARKER)]

(* lines 180-203 of log_init: where to go on in a file of file_size bytes *)
recover(lg, max_bytes, marker_off) ==
    IF Len(lg.file) = 0 THEN [lg EXCEPT !.g_write_pos = 0, !.g_overwriting = 0]
    ELSE IF marker_off >= 0 THEN [lg EXCEPT !.g_write_pos = marker_off, !.g_overwriting = 1]
    ELSE IF Len(lg.file) >= max_bytes THEN [lg EXCEPT !.g_write_pos = 0, !.g_overwriting = 1]
    ELSE [lg EXCEPT !.g_write_pos = Len(lg.file), !.g_overwriting = 0]

(* log_init: the file is opened, or created if there is none, and the write position
   recovered; rc is what it returns *)
log_init(lg, max_bytes) ==
    IF max_bytes < MIN_FILE_CAP THEN [lg EXCEPT !.rc = 0 - 1]
    ELSE CHOOSE r \in {recover([lg EXCEPT !.g_fp = TRUE, !.exists = TRUE,
                                          !.file = IF lg.exists THEN lg.file ELSE <<>>,
                                          !.g_max_bytes = max_bytes,
                                          !.g_initialised = 1, !.rc = 0],
                               max_bytes, off) :
                         off \in {IF lg.exists THEN find_marker(lg.file) ELSE 0 - 1}} : TRUE

log_close(lg) == [lg EXCEPT !.g_fp = FALSE, !.g_initialised = 0]

(* lines 238-262 of log_write: the line made of the prefix and the message, cut to
   the line buffer and ended by a newline *)
format_line(level, msg) ==
    LET line == LinePrefix(level) \o msg
        cut == IF Len(line) >= LINE_BUF_MAX - 1 THEN SubSeq(line, 1, LINE_BUF_MAX - 2) ELSE line
    IN  IF cut = <<>> \/ cut[Len(cut)] # "\n" THEN Append(cut, "\n") ELSE cut

Blanks == [i \in 1 .. MARKER_LEN |-> IF i < MARKER_LEN THEN " " ELSE "\n"]

(* lines 284-300 of log_write: when the line and the marker do not fit below the cap,
   the stale marker is blanked if it lies below the cap, and writing goes on at the
   top of the file *)
wrap(lg, line_len) ==
    IF lg.g_write_pos + line_len + (IF lg.g_overwriting # 0 THEN MARKER_LEN ELSE 0)
           > lg.g_max_bytes
    THEN [lg EXCEPT !.file = IF lg.g_overwriting # 0
                                  /\ lg.g_write_pos + MARKER_LEN <= lg.g_max_bytes
                              THEN WriteAt(lg.file, lg.g_write_pos, Blanks)
                              ELSE lg.file,
                    !.g_write_pos = 0,
                    !.g_overwriting = 1]
    ELSE lg

(* log_write of a message that passes the level filter, to the file if it is open *)
log_write(lg, level, msg) ==
    IF level < lg.g_min_level \/ ~lg.g_fp THEN lg
    ELSE CHOOSE r \in {write_marker(raw_write(wrap(lg, Len(data)), data)) :
                         data \in {SubSeq(line, 1, IF Len(line) > lg.g_max_bytes - MARKER_LEN
                                                   THEN lg.g_max_bytes - MARKER_LEN
                                                   ELSE Len(line)) :
                                     line \in {format_line(level, msg)}}} : TRUE

(* ---------------------------------------------------------------------- *)
(* Runs of the logger on one file                                          *)
(* ---------------------------------------------------------------------- *)

MaxLogWrites == 3

(* the caps that log_init is called with *)
LogCaps == {100, 256, 300}

Chars(c, n) == [i \in 1 .. n |-> c]

(* the messages: a short one, one that ends in a newline, one longer than the caps,
   and one whose second line reads like the marker *)
LogMessages ==
    {Chars("a", 10), Append(Chars("c", 5), "\n"), Chars("b", 300),
     <<"a", "\n">> \o SubSeq(MARKER, 1, MARKER_LEN - 1)}

(* before the first log_init: no file; last is the last call of log_init or log_write
   that did its work, writes the number of calls of log_write, caps the caps that
   the file has been opened with *)
LogUnset ==
    [g_initialised |-> 0, g_fp |-> FALSE, g_max_bytes |-> 0, g_write_pos |-> 0,
     g_overwriting |-> 0, g_min_level |-> LOG_INFO, exists |-> FALSE, file |-> <<>>,
     rc |-> 0, last |-> "none", writes |-> 0, caps |-> {}]

InitLog ==
    /\ QueueFresh
    /\ MoreUnset
    /\ WlUnloaded
    /\ home_group_id = 0
    /\ webhook = [running |-> FALSE]
    /\ logger = LogUnset

(* log_init, also by a new process after the last one ended or was lost *)
LogInit(max_bytes) ==
    /\ \E lg \in {log_init(logger, max_bytes)} :
         logger' = IF lg.rc # 0 THEN lg
                   ELSE [lg EXCEPT !.last = "init", !.caps = @ \cup {max_bytes}]
    /\ UNCHANGED <<queuev, wlv, home_group_id, webhook, morev>>

LogClose ==
    /\ logger.g_initialised = 1
    /\ logger' = log_close(logger)
    /\ UNCHANGED <<queuev, wlv, home_group_id, webhook, morev>>

LogWrite(level, msg) ==
    /\ logger.writes < MaxLogWrites
    /\ logger' = [log_write(logger, level, msg) EXCEPT
                      !.last = IF level < logger.g_min_level \/ ~logger.g_fp THEN @ ELSE "write",
                      !.writes = @ + 1]
    /\ UNCHANGED <<queuev, wlv, home_group_id, webhook, morev>>

NextLog ==
    \/ \E max_bytes \in LogCaps : LogInit(max_bytes)
    \/ LogClose
    \/ \E level \in {LOG_DEBUG, LOG_INFO}, msg \in LogMessages : LogWrite(level, msg)

SpecLog == InitLog /\ [][NextLog]_vars

(* ---------------------------------------------------------------------- *)
(* Claims about the circular log                                           *)
(* ---------------------------------------------------------------------- *)

(* log_write has just written to the open log *)
LogWritten == logger.g_initialised = 1 /\ logger.g_fp /\ logger.last = "write"

(* the offsets at which the bytes of the file read as the marker *)
MarkerOffsets(file) ==
    {i \in 0 .. Len(file) - MARKER_LEN : SubSeq(file, i + 1, i + MARKER_LEN) = MARKER}

(* the file has only ever been opened with one cap *)
OneCap == Cardinality(logger.caps) = 1

(* C26: after every log_write the size of the log file is at most the cap, for every
   sequence of writes and every run, also one whose log_init reopened a file that an
   earlier run left *)
C26_SizeWithinCap == LogWritten => Len(logger.file) <= logger.g_max_bytes

(* what holds of the size: it is within the cap when every run used the same cap *)
C26_SizeWithinSameCap == LogWritten /\ OneCap => Len(logger.file) <= logger.g_max_bytes

(* a file left by a run with cap 300 is larger than the cap after a write of a run
   with cap 256 *)
C26_LargerThanCap ==
    /\ LogWritten
    /\ logger.caps = {256, 300}
    /\ logger.g_max_bytes = 256
    /\ Len(logger.file) > 256

(* C27: after every log_write to an initialised log, across wraps and across cycles
   of close and log_init on the same file, the file holds exactly one overwrite
   marker if overwriting is true and none if it is false *)
C27_OneMarkerIffOverwriting ==
    LogWritten =>
        Cardinality(MarkerOffsets(logger.file)) = IF logger.g_overwriting # 0 THEN 1 ELSE 0

(* the log has not wrapped and holds a marker, written as part of a message *)
C27_MarkerWithoutWrap ==
    /\ LogWritten
    /\ OneCap
    /\ logger.g_overwriting = 0
    /\ MarkerOffsets(logger.file) # {}

(* the log holds two markers *)
C27_TwoMarkers ==
    /\ LogWritten
    /\ OneCap
    /\ logger.g_overwriting = 1
    /\ Cardinality(MarkerOffsets(logger.file)) = 2

(* this step is a log_init with the cap of the run before, which wrote last to a log
   that had wrapped *)
C28_Reopened ==
    /\ logger.last = "write"
    /\ logger.g_overwriting = 1
    /\ logger'.last = "init"
    /\ logger'.g_max_bytes = logger.g_max_bytes

(* C28: for any sequence of writes that wrapped the log, closing, or losing the
   process, and log_init with the same path and cap finds the marker and restores
   the write position to the marker's offset, which is the write position that the
   writer had, with overwriting true *)
C28_RecoveryRestoresPosition ==
    [][C28_Reopened =>
         /\ logger'.g_write_pos = logger.g_write_pos
         /\ logger'.g_overwriting = 1
         /\ logger'.g_write_pos \in MarkerOffsets(logger'.file)]_vars

(* a log that was only ever opened with one cap is reopened at another offset than
   the one the writer had reached *)
C28_OtherPosition ==
    /\ logger.last = "init"
    /\ OneCap
    /\ logger.writes > 0
    /\ logger.g_overwriting = 1
    /\ MarkerOffsets(logger.file) # {}
    /\ logger.g_write_pos \notin MarkerOffsets(logger.file)

(* ---------------------------------------------------------------------- *)
(* llm.c: llm_strip_think_tags                                             *)
(* ---------------------------------------------------------------------- *)
THINK_OPEN == <<"<", "t", "h", "i", "n", "k">>

THINK_CLOSE == <<"<", "/", "t", "h", "i", "n", "k", ">">>

(* text[off], with text[strlen(text)] the terminating NUL *)
ByteAt(text, off) == IF off < Len(text) THEN text[off + 1] ELSE "NUL"

(* strncasecmp(text + off, lit, Len(lit)) == 0 *)
MatchesAt(text, off, lit) ==
    /\ off + Len(lit) <= Len(text)
    /\ \A i \in 1 .. Len(lit) : ToLower(text[off + i]) = lit[i]

(* lines 173-181: the offset after the first "</think>" at or after close, or the
   end of the text when there is none *)
RECURSIVE skip_to_close(_, _)
skip_to_close(text, close) ==
    IF close >= Len(text) THEN Len(text)
    ELSE IF text[close + 1] = "<" /\ Len(text) - close >= 8 /\ MatchesAt(text, close, THINK_CLOSE)
         THEN close + 8
         ELSE skip_to_close(text, close + 1)

(* lines 144-187: where the scan goes on when a think tag starts at src, or -1 when
   the byte at src is copied *)
tag_end(text, src) ==
    IF ~(text[src + 1] = "<" /\ Len(text) - src >= 7 /\ MatchesAt(text, src, THINK_OPEN))
    THEN 0 - 1
    ELSE LET slash == ByteAt(text, src + 6) = "/"
             after_tag == IF slash THEN src + 7 ELSE src + 6
         IN  IF slash /\ ByteAt(text, after_tag) = ">" THEN after_tag + 1
             ELSE IF /\ ByteAt(text, after_tag) = " "
                     /\ ByteAt(text, after_tag + 1) = "/"
                     /\ ByteAt(text, after_tag + 2) = ">"
                  THEN after_tag + 3
             ELSE IF ByteAt(text, after_tag) = ">" THEN skip_to_close(text, after_tag + 1)
             ELSE 0 - 1

(* lines 142-191: the copy loop, src the read offset and dst the bytes kept so far *)
RECURSIVE strip_loop(_, _, _)
strip_loop(text, src, dst) ==
    IF src >= Len(text) THEN dst
    ELSE IF tag_end(text, src) >= 0 THEN strip_loop(text, tag_end(text, src), dst)
    ELSE strip_loop(text, src + 1, Append(dst, text[src + 1]))

IsBlank(c) == c \in {" ", "\t", "\n", "\r"}

(* lines 194-201: leading white space removed *)
RECURSIVE trim_leading(_)
trim_leading(text) ==
    IF text # <<>> /\ IsBlank(Head(text)) THEN trim_leading(Tail(text)) ELSE text

(* lines 204-208: trailing white space removed *)
RECURSIVE trim_trailing(_)
trim_trailing(text) ==
    IF text # <<>> /\ IsBlank(text[Len(text)])
    THEN trim_trailing(SubSeq(text, 1, Len(text) - 1)) ELSE text

(* llm_strip_think_tags(text): the buffer it leaves; its length is the return value *)
llm_strip_think_tags(text) == trim_trailing(trim_leading(strip_loop(text, 0, <<>>)))

(* the completions: up to MaxPieces of these pieces, one after the other *)
MaxPieces == 3

Pieces ==
    {<<"<", "t", "h", "i", "n", "k", ">">>,
     <<"<", "/", "t", "h", "i", "n", "k", ">">>,
     <<"<", "T", "H", "I", "N", "K", ">">>,
     <<"<", "t", "h", "i", "n", "k", "/", ">">>,
     <<"<", "t", "h", "i", "n", "k", " ", "/", ">">>,
     <<"<", "t", "h", "i">>,
     <<"n", "k", ">">>,
     <<"<", "t", "h", "i", "n", "k", "i", "n", "g", ">">>,
     <<"a">>,
     <<" ">>}

RECURSIVE Flatten(_)
Flatten(ps) == IF ps = <<>> THEN <<>> ELSE Head(ps) \o Flatten(Tail(ps))

Completions == {Flatten(ps) : ps \in UNION {[1 .. n -> Pieces] : n \in 0 .. MaxPieces}}

(* the completion has been copied to out_buf, line 319 of llm_chat *)
InitStrip ==
    /\ QueueFresh
    /\ WlUnloaded
    /\ ExtUnsetBut({"llm"})
    /\ \E text \in Completions : llm = [pc |-> "copied", out_buf |-> text, raw |-> text]

(* line 322 of llm_chat: the think blocks are stripped from out_buf; raw keeps the
   completion as it came *)
StripThink ==
    /\ llm.pc = "copied"
    /\ \E res \in {llm_strip_think_tags(llm.out_buf)} :
         llm' = [llm EXCEPT !.pc = "stripped", !.out_buf = res]
    /\ UNCHANGED <<queuev, wlv, home_group_id, webhook, logger, writers, reader, wpool, rw>>

NextStrip == StripThink

SpecStrip == InitStrip /\ [][NextStrip]_vars

(* some i with tag at offset i of text, compared without regard to case *)
Contains(text, tag) == \E i \in 0 .. Len(text) - Len(tag) : MatchesAt(text, i, tag)

ThinkTags ==
    {<<"<", "t", "h", "i", "n", "k", ">">>, <<"<", "t", "h", "i", "n", "k", "/", ">">>, <<"<", "t", "h", "i", "n", "k", " ", "/", ">">>, THINK_CLOSE}

(* C31: the buffer that llm_strip_think_tags leaves contains no opening or
   self-closing think tag and no "</think>", compared case-insensitively *)
C31_NoThinkTagLeft ==
    llm.pc = "stripped" => \A tag \in ThinkTags : ~Contains(llm.out_buf, tag)

(* the completion "</think>", a closing tag that no block opens, is left as it is *)
C31_StrayCloseLeft ==
    llm.pc = "stripped" /\ llm.raw = THINK_CLOSE /\ llm.out_buf = THINK_CLOSE

(* ---------------------------------------------------------------------- *)
(* logger.c: threads that call log_write at the same time                  *)
(* ---------------------------------------------------------------------- *)
MaxMxWrites == 4

LogThreads == {"w1", "w2"}

(* what the threads log: each its own text *)
MxMessage == [t \in LogThreads |-> IF t = "w1" THEN Chars("a", 3) ELSE Chars("b", 3)]

(* the cap that log_init is called with *)
MxCaps == {2048}

(* log_init(path, 2048) has opened a new log; no thread is inside log_write; calls
   counts the calls of log_write made so far *)
InitMx ==
    /\ QueueFresh
    /\ WlUnloaded
    /\ ExtUnsetBut({"logger", "writers"})
    /\ \E max_bytes \in MxCaps : logger = log_init(LogUnset, max_bytes)
    /\ writers = [pc |-> [t \in LogThreads |-> "idle"],
                  level |-> [t \in LogThreads |-> LOG_INFO],
                  stderr |-> <<>>, calls |-> 0]

(* lines 229-265 of log_write, thread t: the level filter, the line formatted on the
   stack, and fputs(line, stderr); the mutex has not been asked for yet *)
MxStderr(t, level) ==
    /\ writers.pc[t] = "idle"
    /\ writers.calls < MaxMxWrites
    /\ writers' = IF level < logger.g_min_level
                  THEN [writers EXCEPT !.calls = @ + 1]
                  ELSE [writers EXCEPT !.calls = @ + 1, !.pc[t] = "lock", !.level[t] = level,
                                       !.stderr = Append(@, format_line(level, MxMessage[t]))]
    /\ UNCHANGED <<queuev, wlv, home_group_id, webhook, logger, llm, reader, wpool, rw>>

(* lines 268-302 of log_write, thread t: with g_lock held, the line goes to the file
   and the lock is given back *)
MxFile(t) ==
    /\ writers.pc[t] = "lock"
    /\ logger' = log_write(logger, writers.level[t], MxMessage[t])
    /\ writers' = [writers EXCEPT !.pc[t] = "idle"]
    /\ UNCHANGED <<queuev, wlv, home_group_id, webhook, llm, reader, wpool, rw>>

NextMx ==
    \/ \E t \in LogThreads, level \in {LOG_DEBUG, LOG_INFO} : MxStderr(t, level)
    \/ \E t \in LogThreads : MxFile(t)

SpecMx == InitMx /\ [][NextMx]_vars

(* the lines of a file, each with its newline *)
RECURSIVE FileLines(_)
FileLines(file) ==
    IF file = <<>> THEN <<>>
    ELSE LET nls == {i \in 1 .. Len(file) : file[i] = "\n"}
             n == IF nls = {} THEN Len(file) ELSE Least(nls)
         IN  <<SubSeq(file, 1, n)>> \o FileLines(SubSeq(file, n + 1, Len(file)))

NoWriterInside == \A t \in LogThreads : writers.pc[t] = "idle"

(* C32: the line goes to standard error under the log mutex together with the file
   write, so the lines on standard error are in the order they have in the log
   file; once every call has returned, both hold the same lines in the same order *)
C32_StderrInFileOrder ==
    NoWriterInside /\ logger.g_overwriting = 0 => writers.stderr = FileLines(logger.file)

(* two calls have returned and the log holds their lines the other way round *)
C32_OrdersDiffer ==
    /\ NoWriterInside
    /\ Len(writers.stderr) = 2
    /\ FileLines(logger.file) = <<writers.stderr[2], writers.stderr[1]>>
    /\ writers.stderr[1] # writers.stderr[2]

(* ---------------------------------------------------------------------- *)
(* worker_main: what a worker does with the message it has popped          *)
(* ---------------------------------------------------------------------- *)
(* the texts a worker sends: the acknowledgment, the completion that llm_chat wrote
   for a prompt, and the echo "Hello! You said: %s" of the popped text *)
Thinking == [kind |-> "ack"]

CompletionOf(prompt) == [kind |-> "completion", of |-> prompt]

EchoOf(text) == [kind |-> "echo", of |-> text]

(* lines 102-116 of worker_main: with a completion handle the acknowledgment is sent
   and llm_chat is called with the popped text as the user message; the reply is the
   completion, or the echo when there is no handle or llm_chat fails *)
worker_reply(has_llm, chat_ok, msg) ==
    [prompts |-> IF has_llm THEN <<msg.text>> ELSE <<>>,
     sends |-> (IF has_llm THEN <<[chat_id |-> msg.chat_id, text |-> Thinking]>> ELSE <<>>)
               \o <<[chat_id |-> msg.chat_id,
                     text |-> IF has_llm /\ chat_ok THEN CompletionOf(msg.text)
                              ELSE EchoOf(msg.text)]>>]

(* worker t has popped a message and slept; it sends, and the history notes for whom,
   when, and what *)
WorkerReply(t) ==
    /\ pc[t] = "send"
    /\ pc' = [pc EXCEPT ![t] = "call"]
    /\ \E chat_ok \in BOOLEAN :
         \E res \in {worker_reply(wpool.llm[t], chat_ok, out[t])} :
             wpool' = [wpool EXCEPT !.replies =
                            Append(@, [user_id |-> out[t].user_id, at |-> now,
                                       msg |-> out[t].text,
                                       prompts |-> res.prompts, sends |-> res.sends])]
    /\ UNCHANGED <<g_queue, now, out, poolv, attempts, push_rc, pushed, popped, last_user,
                   wlv, home_group_id, webhook, logger, llm, writers, reader, rw>>

(* ---------------------------------------------------------------------- *)
(* The pool while main runs its update loop, with a positive reply_delay   *)
(* ---------------------------------------------------------------------- *)
PaceDelays == {1}

(* llm_init has failed in every worker, so each reply is the echo *)
InitPace ==
    /\ \E rd \in PaceDelays : QueueFreshWith(rd)
    /\ WlUnloaded
    /\ ExtUnsetBut({"wpool"})
    /\ wpool = [llm |-> [t \in Threads |-> FALSE], replies |-> <<>>]

NextPace ==
    \/ Tick
    \/ \E s \in Senders : MainUpdate(s)
    \/ \E t \in Threads : WorkerPop(t)
    \/ \E t \in Threads : WorkerWake(t)
    \/ \E t \in Threads : WorkerPace(t)
    \/ \E t \in Threads : WorkerSleepDone(t)
    \/ \E t \in Threads : WorkerReply(t)

SpecPace == InitPace /\ [][NextPace]_vars

(* the replies sent for messages of sender s, in the order they were sent *)
RepliesTo(s) == SelectSeq(wpool.replies, LAMBDA r : r.user_id = s)

(* C33: two consecutive replies for messages of one sender are never sent less than
   reply_delay seconds apart *)
C33_PerSenderPacing ==
    \A s \in Senders : \A i \in 1 .. Len(RepliesTo(s)) - 1 :
        RepliesTo(s)[i + 1].at - RepliesTo(s)[i].at >= reply_delay

(* two messages that one sender pushed within the same second are both answered
   within the same second *)
C33_BackToBack ==
    \E s \in Senders :
        /\ Len(RepliesTo(s)) >= 2
        /\ RepliesTo(s)[1].at = RepliesTo(s)[2].at
        /\ reply_delay = 1

(* ---------------------------------------------------------------------- *)
(* From the update to the chat: handle_update, the queue and the workers   *)
(* ---------------------------------------------------------------------- *)
RelayTexts == {JStr(<<"h", "e", "l", "l", "o">>), JStr(<<"/", "n", "o", "p", "e">>), JStr(<<"/", "a", "l", "l", "o", "w", " ", "4">>)}

(* private messages of the admin 3 and of sender 4 *)
RelayUpdates ==
    {Message(JNum(s), JNum(s), JStr(<<"p", "r", "i", "v", "a", "t", "e">>), text) : s \in UpdSenders, text \in RelayTexts}

(* the texts that q2 holds for some sender and q did not, with the sender's id *)
NewlyQueued(q, q2) ==
    UNION {{[user_id |-> s, text |-> RingSlots(RingOf(q2, s))[k].text] :
              k \in C15_Queued(q, s) + 1 .. C15_Queued(q2, s)} : s \in Senders}

(* main after whitelist_load and webhook_start with reply_delay 0; the worker t1 has
   a completion handle and llm_init has failed in t2. origin is history: for every
   text queued, the sender of the update it came from and whether the access list
   held that sender when handle_update looked *)
InitRelay ==
    /\ QueueFresh
    /\ wl_file \in UpdFiles
    /\ wl_ids = whitelist_load(wl_file, TRUE).ids
    /\ wl_tmp = NoFile
    /\ wl_pc = "idle"
    /\ wl_rc = 0
    /\ wl_call = [op |-> "load", id |-> 0, n |-> 0, before |-> <<>>, text |-> <<>>,
                  alloc_ok |-> TRUE]
    /\ wl_saved = [init |-> wl_file, ids |-> <<>>, done |-> FALSE]
    /\ admin_user_id = 3
    /\ cmd_rc = 99
    /\ ExtUnsetBut({"webhook", "wpool"})
    /\ webhook = [running |-> TRUE, upd |-> [h \in Handlers |-> HandlerIdle]]
    /\ wpool = [llm |-> [t \in Threads |-> t = "t1"], replies |-> <<>>, origin |-> {}]

(* webhook_on_update: handle_update for u, as in UpdHandle, with the origin of what
   it queues noted *)
RelayHandle(h, u) ==
    /\ webhook.upd[h].pc = "idle"
    /\ wl_call.n < MaxHandled
    /\ \E fail_at \in CmdSaveFailures, alloc_ok \in BOOLEAN :
         \E res \in {handle_update(u, [admin_user_id |-> admin_user_id,
                                       home_group_id |-> home_group_id,
                                       bot_username |-> BotUsername,
                                       worker_count |-> Cardinality(Threads)],
                                   [q |-> g_queue, ids |-> wl_ids,
                                    fs |-> [file |-> wl_file, tmp |-> wl_tmp]],
                                   [clock |-> now, alloc_ok |-> alloc_ok, fail_at |-> fail_at])} :
             /\ cmd_rc' = res.rc
             /\ g_queue' = res.st.q
             /\ wl_ids' = res.st.ids
             /\ wl_file' = res.st.fs.file
             /\ wl_tmp' = res.st.fs.tmp
             /\ wl_call' = [op |-> "upd", id |-> u.from_id.val, n |-> wl_call.n + 1,
                            before |-> wl_ids, text |-> u.text.val, alloc_ok |-> alloc_ok]
             /\ webhook' = [webhook EXCEPT !.upd[h] =
                              IF res.forward
                              THEN [pc |-> "push", from_id |-> u.from_id.val,
                                    chat_id |-> u.chat_id.val, text |-> u.text.val,
                                    checked |-> wl_ids]
                              ELSE HandlerIdle]
             /\ wpool' = [wpool EXCEPT !.origin = @ \cup
                            {[user_id |-> m.user_id, text |-> m.text, from_id |-> u.from_id.val,
                              listed |-> whitelist_contains(wl_ids, u.from_id.val)] :
                               m \in NewlyQueued(g_queue, res.st.q)}]
    /\ UNCHANGED <<now, pc, out, g_running, main_pc, reply_delay, attempts, push_rc,
                   pushed, popped, last_user, wl_pc, wl_rc, wl_saved, admin_user_id,
                   home_group_id, logger, llm, writers, reader, rw>>

(* line 217 of handle_update, as in UpdPush, with the origin noted *)
RelayPush(h) ==
    /\ webhook.upd[h].pc = "push"
    /\ \E alloc_ok \in BOOLEAN :
         \E res \in {queue_push(g_queue, webhook.upd[h].from_id, webhook.upd[h].chat_id,
                                UserText(webhook.upd[h].text), now, alloc_ok)} :
             /\ g_queue' = res.q
             /\ wpool' = [wpool EXCEPT !.origin = @ \cup
                            {[user_id |-> m.user_id, text |-> m.text,
                              from_id |-> webhook.upd[h].from_id,
                              listed |-> whitelist_contains(webhook.upd[h].checked,
                                                            webhook.upd[h].from_id)] :
                               m \in NewlyQueued(g_queue, res.q)}]
    /\ webhook' = [webhook EXCEPT !.upd[h] = HandlerIdle]
    /\ UNCHANGED <<now, pc, out, g_running, main_pc, reply_delay, attempts, push_rc,
                   pushed, popped, last_user, wlv, home_group_id, logger, llm, writers, reader, rw>>

(* a worker that comes to queue_pop when a message is pending *)
RelayPop(t) ==
    /\ pc[t] = "call"
    /\ ~pop_must_wait(g_queue)
    /\ \E res \in {queue_pop(g_queue, out[t])} :
         /\ g_queue' = res.q
         /\ out' = [out EXCEPT ![t] = res.out]
         /\ pc' = [pc EXCEPT ![t] = IF res.rc = 0 THEN "got" ELSE "done"]
    /\ UNCHANGED <<extv, wlv, now, poolv, attempts, push_rc, pushed, popped, last_user>>

NextRelay ==
    \/ \E u \in RelayUpdates : RelayHandle("h1", u)
    \/ RelayPush("h1")
    \/ \E t \in Threads : RelayPop(t)
    \/ \E t \in Threads : WorkerPace(t)
    \/ \E t \in Threads : WorkerReply(t)

SpecRelay == InitRelay /\ [][NextRelay]_vars

(* the updates that may have queued the message a reply is about *)
OriginsOf(r) == {o \in wpool.origin : o.user_id = r.user_id /\ o.text = r.msg}

(* C34: every message that a worker passes to the completion client stems from an
   update whose sender was on the access list when the update was handled *)
C34_CompletionOnlyForListed ==
    \A i \in 1 .. Len(wpool.replies) :
        wpool.replies[i].prompts # <<>> => \E o \in OriginsOf(wpool.replies[i]) : o.listed

(* the notice "Unknown command. Try /help", queued for a sender who is not on the
   list, has been the user message of a completion request *)
C34_NoticeAsPrompt ==
    \E i \in 1 .. Len(wpool.replies) :
        /\ wpool.replies[i].prompts = <<UnknownCommandReply>>
        /\ \A o \in OriginsOf(wpool.replies[i]) : ~o.listed

(* the texts that command handlers and the unknown-command branch queue *)
IsCommandReply(text) == text.id.fmt # "%s"

(* C38: a message queued by a command handler, and the unknown-command notice, is
   sent to its chat with exactly the queued text; it is never the prompt of a
   completion request and never replaced by a completion or an echo *)
C38_CommandRepliesVerbatim ==
    \A i \in 1 .. Len(wpool.replies) :
        IsCommandReply(wpool.replies[i].msg) =>
            /\ wpool.replies[i].prompts = <<>>
            /\ \A k \in 1 .. Len(wpool.replies[i].sends) :
                   wpool.replies[i].sends[k].text = wpool.replies[i].msg

(* "permission denied: admin only." has reached the chat of sender 4 wrapped in the
   echo "Hello! You said: ..." *)
C38_DenialEchoed ==
    \E i \in 1 .. Len(wpool.replies) :
        /\ wpool.replies[i].msg = ReplyTexts.denied
        /\ wpool.replies[i].sends = <<[chat_id |-> 4, text |-> EchoOf(ReplyTexts.denied)]>>

(* ---------------------------------------------------------------------- *)
(* logger.c: log_read_last_n                                               *)
(* ---------------------------------------------------------------------- *)
(* lines 346-357: the scan for the marker, at offset 0 and after each newline *)
tail_marker(buf) == IF Len(buf) < MARKER_LEN THEN 0 - 1 ELSE find_marker_from(buf, 0)

(* lines 363-379: the bytes after the marker, then the bytes before it *)
logical_order(buf, marker_off) ==
    IF marker_off >= 0
    THEN SubSeq(buf, marker_off + MARKER_LEN + 1, Len(buf)) \o SubSeq(buf, 1, marker_off)
    ELSE buf

LastN(seq, n) == SubSeq(seq, IF Len(seq) > n THEN Len(seq) - n + 1 ELSE 1, Len(seq))

(* log_read_last_n on a log lg: what it returns (rc) and the lines it writes to
   standard output (out) *)
log_read_last_n(lg, n) ==
    IF n <= 0 \/ ~lg.exists \/ Len(lg.file) = 0 THEN [rc |-> 0 - 1, out |-> <<>>]
    ELSE [rc |-> 0,
          out |-> LastN(FileLines(logical_order(lg.file, tail_marker(lg.file))), n)]

MaxTailWrites == 8

TailCaps == {256}

(* the lengths of the messages; with the prefix and the newline a line has 31 bytes
   more *)
TailLens == {30, 100}

TailCounts == {0, 1, 2}

(* the k-th message is made of the k-th letter, so that no two lines are alike *)
Letter(k) == CharOrder[CharCode("a") + k - 1]

(* log_init has opened a new log; written is history, the lines handed to raw_write
   in the order of the calls, and wraps the number of times that log_write has
   gone back to the top of the file *)
InitTail ==
    /\ QueueFresh
    /\ WlUnloaded
    /\ ExtUnsetBut({"logger", "reader"})
    /\ \E max_bytes \in TailCaps : logger = log_init(LogUnset, max_bytes)
    /\ reader = [pc |-> "none", written |-> <<>>, wraps |-> 0]

(* log_write of the next message *)
TailWrite(len) ==
    /\ Len(reader.written) < MaxTailWrites
    /\ \E msg \in {Chars(Letter(Len(reader.written) + 1), len)} :
         \E lg \in {log_write(logger, LOG_INFO, msg)} :
             /\ logger' = lg
             /\ reader' = [pc |-> "none",
                           written |-> Append(reader.written, format_line(LOG_INFO, msg)),
                           wraps |-> IF logger.g_write_pos # 0
                                        /\ wrap(logger, Len(format_line(LOG_INFO, msg))).g_write_pos = 0
                                     THEN reader.wraps + 1 ELSE reader.wraps]
    /\ UNCHANGED <<queuev, wlv, home_group_id, webhook, llm, writers, wpool, rw>>

(* another process runs log_read_last_n(path, n) *)
TailRead(n) ==
    /\ reader.pc = "none"
    /\ \E res \in {log_read_last_n(logger, n)} :
         reader' = [pc |-> "read", written |-> reader.written, wraps |-> reader.wraps,
                    n |-> n, rc |-> res.rc, out |-> res.out]
    /\ UNCHANGED <<queuev, wlv, home_group_id, webhook, logger, llm, writers, wpool, rw>>

NextTail ==
    \/ \E len \in TailLens : TailWrite(len)
    \/ \E n \in TailCounts : TailRead(n)

SpecTail == InitTail /\ [][NextTail]_vars

(* line occurs in file, byte for byte *)
OccursIn(line, file) ==
    \E off \in 0 .. Len(file) - Len(line) : SubSeq(file, off + 1, off + Len(line)) = line

(* the written lines that the file still holds in full, oldest first *)
Surviving == SelectSeq(reader.written, LAMBDA line : OccursIn(line, logger.file))

TailHasRead == reader.pc = "read" /\ reader.rc = 0

(* C35: log_read_last_n(path, n) emits the n most recently written lines still
   present in the file, oldest first, after any number of wraps *)
C35_TailInWriteOrder ==
    TailHasRead /\ Len(Surviving) >= reader.n => reader.out = LastN(Surviving, reader.n)

(* what holds: the same for a log that has wrapped at most once *)
C35_TailAfterOneWrap ==
    TailHasRead /\ Len(Surviving) >= reader.n /\ reader.wraps <= 1
        => reader.out = LastN(Surviving, reader.n)

(* after the second wrap the blanks that erased the stale marker are emitted as a
   line in place of a written line that the file still holds *)
C35_BlanksEmitted ==
    /\ TailHasRead
    /\ reader.wraps = 2
    /\ Len(Surviving) >= 2
    /\ reader.n = 2
    /\ reader.out[1] = Blanks

(* ---------------------------------------------------------------------- *)
(* logger.c: log_follow                                                    *)
(* ---------------------------------------------------------------------- *)
(* lines 497-518 of log_follow, after an inotify event: the file size is compared
   with the remembered offset, and the bytes between the two are copied to
   standard output *)
follow_step(last_pos, file) ==
    LET cur_pos == Len(file)
        from == IF cur_pos < last_pos THEN 0 ELSE last_pos
    IN  [last_pos |-> IF cur_pos > from THEN cur_pos ELSE from,
         emitted |-> IF cur_pos > from THEN SubSeq(file, from + 1, cur_pos) ELSE <<>>]

MaxFollowWrites == 5

(* log_init has opened a new log and log_follow has not been started; event tells
   that an IN_MODIFY event waits to be read, out is what the follower has written
   to standard output, since the number of lines written before it started *)
InitFollow ==
    /\ QueueFresh
    /\ WlUnloaded
    /\ ExtUnsetBut({"logger", "reader"})
    /\ \E max_bytes \in TailCaps : logger = log_init(LogUnset, max_bytes)
    /\ reader = [pc |-> "none", written |-> <<>>, last_pos |-> 0, event |-> FALSE,
                 out |-> <<>>, since |-> 0]

(* lines 439-464 of log_follow: the watch is set, the file opened and its size
   remembered *)
FollowStart ==
    /\ reader.pc = "none"
    /\ reader' = [reader EXCEPT !.pc = "select", !.last_pos = Len(logger.file),
                                !.since = Len(reader.written)]
    /\ UNCHANGED <<queuev, wlv, home_group_id, webhook, logger, llm, writers, wpool, rw>>

(* log_write of the next message by the bot; the watch, if set, reports it. The
   follower keeps up: it has read the last event before the bot writes again *)
FollowWrite(len) ==
    /\ Len(reader.written) < MaxFollowWrites
    /\ ~reader.event
    /\ \E msg \in {Chars(Letter(Len(reader.written) + 1), len)} :
         /\ logger' = log_write(logger, LOG_INFO, msg)
         /\ reader' = [reader EXCEPT !.written = Append(@, format_line(LOG_INFO, msg)),
                                     !.event = reader.pc = "select"]
    /\ UNCHANGED <<queuev, wlv, home_group_id, webhook, llm, writers, wpool, rw>>

(* lines 474-518 of log_follow: pselect returns, the events are drained and the new
   content is copied *)
FollowWake ==
    /\ reader.pc = "select"
    /\ reader.event
    /\ \E res \in {follow_step(reader.last_pos, logger.file)} :
         reader' = [reader EXCEPT !.event = FALSE, !.last_pos = res.last_pos,
                                  !.out = @ \o res.emitted]
    /\ UNCHANGED <<queuev, wlv, home_group_id, webhook, logger, llm, writers, wpool, rw>>

NextFollow ==
    \/ FollowStart
    \/ \E len \in TailLens : FollowWrite(len)
    \/ FollowWake

SpecFollow == InitFollow /\ [][NextFollow]_vars

(* the follower has read every event, so that it emits nothing more unless the bot
   writes again *)
FollowerIdle == reader.pc = "select" /\ ~reader.event

(* the lines written while log_follow ran *)
WrittenWhileFollowing == {k \in 1 .. Len(reader.written) : reader.since < k}

EmittedLine(k) == OccursIn(reader.written[k], reader.out)

(* C36: while log_follow runs, every line written to the log after it started is
   written to its output, also after the writer has wrapped: once the follower has
   read every event, so that nothing more will come unless the bot writes again,
   its output holds every line written since it started *)
C36_FollowerEmitsEveryLine ==
    FollowerIdle => \A k \in WrittenWhileFollowing : EmittedLine(k)

(* what holds: the same as long as the log has not wrapped *)
C36_EmitsUntilWrap ==
    FollowerIdle /\ logger.g_overwriting = 0 => \A k \in WrittenWhileFollowing : EmittedLine(k)

(* the writer has wrapped, the follower has read every event, and the line that
   went to the top of the file is not in its output *)
C36_LineAfterWrapLost ==
    /\ FollowerIdle
    /\ logger.g_overwriting = 1
    /\ \E k \in WrittenWhileFollowing : ~EmittedLine(k)

(* ---------------------------------------------------------------------- *)
(* PostBodys at the end of a request                                       *)
(* ---------------------------------------------------------------------- *)

(* C39: every buffer that pb_acquire hands to a request is given back by pb_release
   once the request ends, with a queued response or because the connection is
   dropped before the final handler call: whenever no request is in flight,
   free_top = pool_size and no heap fallback buffer is outstanding *)
C39_BuffersGivenBack ==
    InFlight = {} =>
        /\ webhook.pb_pool.free_top = webhook.pb_pool.pool_size
        /\ webhook.heap_out = 0

(* what holds: the slots that are not free are those of the requests in flight and
   of the connections that were dropped *)
C39_FreeTopWithinPool ==
    /\ webhook.pb_pool.free_top \in 0 .. webhook.pb_pool.pool_size
    /\ webhook.pb_pool.free_top <=
           webhook.pb_pool.pool_size - Cardinality({r \in InFlight : webhook.req[r].pb.kind = "slot"})

(* no request is in flight, and a slot and a heap buffer are still taken *)
C39_BuffersLeaked ==
    /\ InFlight = {}
    /\ webhook.pb_pool.free_top < webhook.pb_pool.pool_size
    /\ webhook.heap_out > 0

(* ---------------------------------------------------------------------- *)
(* whitelist.c called from several threads: wl->lock                       *)
(* ---------------------------------------------------------------------- *)

MaxRwCalls == 3

(* the ids the callers pass, the lists they find and the step at which a save fails *)
RwIds == {3}

RwLists == {<<>>, <<5>>}

RwFailures == {"none", "rename"}

RwOps == {"add", "remove", "contains"}

(* pthread_rwlock_wrlock returns when no thread holds the lock *)
wrlock_free(l) == l.writer = "none" /\ l.readers = {}

(* pthread_rwlock_rdlock returns when no writer holds the lock *)
rdlock_free(l) == l.writer = "none"

RwIdle == [pc |-> "idle", op |-> "none", id |-> 0, fail_at |-> "none",
           b |-> [found |-> FALSE, idx |-> 0], rc |-> 99, one_rc |-> 99,
           inv |-> 0, fresh |-> FALSE]

(* the file that whitelist_save leaves for ids *)
SavedFile(ids) == [exists |-> TRUE, lines |-> [i \in 1 .. Len(ids) |-> FormatId(ids[i])]]

(* the call op(id) executed alone on the list ids and the files fs; whitelist_contains
   answers 1 for true and 0 for false *)
one_at_a_time(op, ids, fs, id, fail_at) ==
    IF op = "add" THEN whitelist_add(ids, fs, id, fail_at)
    ELSE IF op = "remove" THEN whitelist_remove(ids, fs, id, fail_at)
    ELSE [rc |-> IF whitelist_contains(ids, id) THEN 1 ELSE 0, ids |-> ids, fs |-> fs]

(* the list is loaded and saved, no thread is inside whitelist.c. th is where each
   thread stands in its call: before the lock, searching, changing the list, saving,
   unlocking; clock counts calls and returns; hist holds the calls that returned,
   with the value each returned (rc), the count at its call (inv) and at its return
   (ret), and whether at its call the id was absent and no other call was running
   (fresh); one holds the list and the files as they would be had the calls been
   executed one at a time in the order in which they took the lock, and one_rc what
   the call would have returned then *)
InitRw ==
    /\ QueueFresh
    /\ \E ids \in RwLists :
         /\ wl_ids = ids
         /\ wl_file = SavedFile(ids)
         /\ rw = [writer |-> "none", readers |-> {}, clock |-> 0,
                  th |-> [t \in Threads |-> RwIdle], hist |-> <<>>,
                  one |-> [ids |-> ids, fs |-> [file |-> SavedFile(ids), tmp |-> NoFile]]]
    /\ wl_tmp = NoFile
    /\ wl_pc = "idle"
    /\ wl_rc = 99
    /\ wl_call = [op |-> "load", id |-> 0, n |-> 0, before |-> <<>>]
    /\ wl_saved = [init |-> NoFile, ids |-> <<>>, done |-> FALSE]
    /\ admin_user_id = 0
    /\ cmd_rc = 99
    /\ ExtUnsetBut({"rw"})

RwRest == <<queuev, wl_pc, wl_rc, wl_call, wl_saved, admin_user_id, cmd_rc,
            home_group_id, webhook, logger, llm, writers, reader, wpool>>

RwRunning == {t \in Threads : rw.th[t].pc # "idle"}

(* thread t calls whitelist_add, whitelist_remove or whitelist_contains *)
RwCall(t, op, id, fail_at) ==
    /\ rw.th[t].pc = "idle"
    /\ Len(rw.hist) + Cardinality(RwRunning) < MaxRwCalls
    /\ op = "contains" => fail_at = "none"
    /\ rw' = [rw EXCEPT
           !.clock = @ + 1,
           !.th[t] = [RwIdle EXCEPT !.pc = "lock", !.op = op, !.id = id,
                                    !.fail_at = fail_at, !.inv = rw.clock + 1,
                                    !.fresh = ~whitelist_contains(wl_ids, id)
                                              /\ RwRunning = {}]]
    /\ UNCHANGED <<RwRest, wl_ids, wl_file, wl_tmp>>

(* pthread_rwlock_rdlock in whitelist_contains, pthread_rwlock_wrlock in the others *)
RwLock(t) ==
    /\ rw.th[t].pc = "lock"
    /\ IF rw.th[t].op = "contains"
       THEN /\ rdlock_free(rw)
            /\ rw' = [rw EXCEPT !.readers = @ \cup {t}, !.th[t].pc = "search"]
       ELSE /\ wrlock_free(rw)
            /\ rw' = [rw EXCEPT !.writer = t, !.th[t].pc = "search"]
    /\ UNCHANGED <<RwRest, wl_ids, wl_file, wl_tmp>>

(* what the call has decided once bsearch_idx has answered b *)
searched(op, ids, id, b) ==
    IF op = "add" THEN add_at(ids, id, b)
    ELSE IF op = "remove" THEN remove_at(ids, id, b)
    ELSE [rc |-> IF b.found THEN 1 ELSE 0, ids |-> ids, save |-> FALSE]

(* bsearch_idx and the tests on its result: the call goes on to change the list, or
   has its return value *)
RwSearch(t) ==
    /\ rw.th[t].pc = "search"
    /\ \E c \in {rw.th[t]} :
       \E b \in {bsearch_idx(wl_ids, c.id)} :
       \E r \in {searched(c.op, wl_ids, c.id, b)} :
       \E o \in {one_at_a_time(c.op, rw.one.ids, rw.one.fs, c.id, c.fail_at)} :
           rw' = [rw EXCEPT
               !.th[t].b = b,
               !.th[t].rc = IF r.save THEN 99 ELSE r.rc,
               !.th[t].pc = IF r.save THEN "mutate" ELSE "unlock",
               !.th[t].one_rc = o.rc,
               !.one = [ids |-> o.ids, fs |-> o.fs]]
    /\ UNCHANGED <<RwRest, wl_ids, wl_file, wl_tmp>>

(* the memmove and the store at the position that bsearch_idx gave *)
RwMutate(t) ==
    /\ rw.th[t].pc = "mutate"
    /\ \E c \in {rw.th[t]} :
           wl_ids' = searched(c.op, wl_ids, c.id, c.b).ids
    /\ rw' = [rw EXCEPT !.th[t].pc = "save"]
    /\ UNCHANGED <<RwRest, wl_file, wl_tmp>>

(* whitelist_save, whose result is the call's return value *)
RwSave(t) ==
    /\ rw.th[t].pc = "save"
    /\ \E sv \in {whitelist_save(wl_ids, [file |-> wl_file, tmp |-> wl_tmp],
                                 rw.th[t].fail_at)} :
           /\ wl_file' = sv.fs.file
           /\ wl_tmp' = sv.fs.tmp
           /\ rw' = [rw EXCEPT !.th[t].rc = sv.rc, !.th[t].pc = "unlock"]
    /\ UNCHANGED <<RwRest, wl_ids>>

(* pthread_rwlock_unlock and the return *)
RwUnlock(t) ==
    /\ rw.th[t].pc = "unlock"
    /\ \E c \in {rw.th[t]} :
           rw' = [rw EXCEPT
               !.writer = IF @ = t THEN "none" ELSE @,
               !.readers = @ \ {t},
               !.clock = @ + 1,
               !.th[t] = RwIdle,
               !.hist = Append(@, [t |-> t, op |-> c.op, id |-> c.id, rc |-> c.rc,
                                   one_rc |-> c.one_rc, inv |-> c.inv,
                                   ret |-> rw.clock + 1, fresh |-> c.fresh])]
    /\ UNCHANGED <<RwRest, wl_ids, wl_file, wl_tmp>>

NextRw ==
    \/ \E t \in Threads, op \in RwOps, id \in RwIds, fail_at \in RwFailures :
           RwCall(t, op, id, fail_at)
    \/ \E t \in Threads : RwLock(t)
    \/ \E t \in Threads : RwSearch(t)
    \/ \E t \in Threads : RwMutate(t)
    \/ \E t \in Threads : RwSave(t)
    \/ \E t \in Threads : RwUnlock(t)

SpecRw == InitRw /\ [][NextRw]_vars

(* two calls of whitelist_add for the same id that ran at the same time, the first
   made when the id was absent and nothing else was running, and no third call
   running while either of them was *)
ConcurrentAdds(i, j) ==
    /\ rw.hist[i].op = "add"
    /\ rw.hist[j].op = "add"
    /\ rw.hist[i].id = rw.hist[j].id
    /\ rw.hist[i].fresh
    /\ rw.hist[i].inv < rw.hist[j].inv
    /\ rw.hist[j].inv < rw.hist[i].ret
    /\ \A k \in 1 .. Len(rw.hist) \ {i, j} :
           \/ rw.hist[k].ret < rw.hist[i].inv
           \/ /\ rw.hist[k].inv > rw.hist[i].ret
              /\ rw.hist[k].inv > rw.hist[j].ret

(* C40: concurrent whitelist_add, whitelist_remove and whitelist_contains calls on
   one access list behave as if executed one at a time in an order consistent with
   their real-time order; of two concurrent whitelist_add calls for the same absent
   id exactly one returns 0 and the other returns 1 *)
C40_OneOfTwoAddsReturnsZero ==
    \A i, j \in 1 .. Len(rw.hist) :
        ConcurrentAdds(i, j) => {rw.hist[i].rc, rw.hist[j].rc} = {0, 1}

(* what holds: every call returned what it would have returned had the calls been
   executed one at a time in the order in which they took the lock, and between
   calls the list and its files are what those executions would have left *)
C40_AsIfOneAtATime ==
    /\ \A i \in 1 .. Len(rw.hist) : rw.hist[i].rc = rw.hist[i].one_rc
    /\ \A t \in Threads : rw.th[t].pc = "unlock" => rw.th[t].rc = rw.th[t].one_rc
    /\ (\A t \in Threads : rw.th[t].pc \in {"idle", "lock", "unlock"}) =>
           /\ wl_ids = rw.one.ids
           /\ wl_file = rw.one.fs.file
           /\ wl_tmp = rw.one.fs.tmp

(* two concurrent whitelist_add calls for an absent id have returned -1 and 1: the
   save of the one that inserted the id failed, and the other found the id *)
C40_FailedAddSeenAsPresent ==
    \E i, j \in 1 .. Len(rw.hist) :
        ConcurrentAdds(i, j) /\ {rw.hist[i].rc, rw.hist[j].rc} = {0 - 1, 1}
====
